---- MODULE Spec2Model ----
(***************************************************************************)
(* OCR confidence scoring, quality-gate routing and timeblock extraction   *)
(* of the LearningYogi timetable pipeline.                                 *)
(*                                                                         *)
(*   OCRProcessor  PoCImplementation1/backend/python/src/ocr/processor.py  *)
(*   OCRService    POCDemoImplementation/backend/python/app/services/      *)
(*                 ocr_service.py                                          *)
(*                                                                         *)
(* Python strings are sequences of one-character strings, so that the      *)
(* regular expressions, strip(), split(), int() and the format             *)
(* specifications are computed character by character.  Python floats are  *)
(* exact rationals <<numerator, denominator>> in lowest terms.             *)
(***************************************************************************)
EXTENDS Integers, Sequences, FiniteSets, TLC

VARIABLES
    ocr_result,     \* the OCRResult handed to the quality gate of the current call
    gate_call,      \* the current quality-gate call: policy, argument, decision
    gate_prev,      \* the quality-gate call before it
    time_tuple,     \* the argument of the _normalize_time call
    time_out,       \* what that call returned
    text,           \* the argument of extract_timeblocks
    lines,          \* extract_timeblocks: text.strip().split('\n')
    line_no,        \* extract_timeblocks: index of the next line of the loop
    current_day,    \* extract_timeblocks: the local current_day
    timeblocks,     \* extract_timeblocks: the local list timeblocks
    pc,             \* extract_timeblocks: "idle", "loop" or "done"
    data,           \* the Tesseract dictionary handed to _calculate_confidence
    full_text,      \* the text handed to _calculate_confidence
    confidence,     \* what _calculate_confidence returned, per implementation
    history,        \* the calls completed on one processor instance, oldest first
    use_cloud_vision,   \* OCRProcessor.use_cloud_vision
    texts,          \* response.text_annotations of process_with_cloud_vision
    engine_calls,   \* the number of calls of vision_client.text_detection
    event,          \* the event the Lambda handler was invoked with
    handler_pc,     \* the statement of the handler that runs next
    steps,          \* the steps of the handler that have completed, in order
    emitted,        \* the entries put on EventBridge, in order
    handler_locals, \* the locals of the handler that are bound so far
    exc,            \* the exception that left the try block of the handler
    handler_result  \* what the handler returned

vars == <<ocr_result, gate_call, gate_prev, time_tuple, time_out, text, lines,
          line_no, current_day, timeblocks, pc, data, full_text, confidence,
          history, use_cloud_vision, texts, engine_calls,
          event, handler_pc, steps, emitted, handler_locals, exc, handler_result>>

gate_vars == <<ocr_result, gate_call, gate_prev>>
time_vars == <<time_tuple, time_out>>
extract_vars == <<text, lines, line_no, current_day, timeblocks, pc>>
conf_vars == <<data, full_text, confidence>>
call_vars == <<history>>
vision_vars == <<use_cloud_vision, texts, engine_calls>>
handler_vars == <<event, handler_pc, steps, emitted, handler_locals, exc, handler_result>>

\* Python's None, and the value of a variable no call has set yet.
None == <<"None">>
Pending == <<"pending">>
\* Python truthiness of an optional string
Truthy(s) == s # None /\ s # <<>>

(***************************************************************************)
(* Evaluation helpers                                                      *)
(***************************************************************************)
\* F(v), with v evaluated once however often F uses it
Bind(v, F(_)) == CHOOSE r \in {F(x) : x \in {v}} : TRUE

Range(f) == {f[i] : i \in DOMAIN f}
Min(S) == CHOOSE x \in S : \A y \in S : x <= y
Max(S) == CHOOSE x \in S : \A y \in S : x >= y

(***************************************************************************)
(* Characters and strings                                                  *)
(***************************************************************************)
Chars(s) == [i \in 1..Len(s) |-> SubSeq(s, i, i)]

LowerLetters == Chars("abcdefghijklmnopqrstuvwxyz")
UpperLetters == Chars("ABCDEFGHIJKLMNOPQRSTUVWXYZ")
DigitChars == Chars("0123456789")
LowerSet == Range(LowerLetters)
UpperSet == Range(UpperLetters)
DigitSet == Range(DigitChars)

IsDigit(c) == c \in DigitSet
IsLower(c) == c \in LowerSet
IsUpper(c) == c \in UpperSet
\* \w of the re module on the characters used here
IsWordChar(c) == IsDigit(c) \/ IsLower(c) \/ IsUpper(c) \/ c = "_"
\* what str.strip() removes and \s matches
IsSpace(c) == c \in {" ", "\t", "\n", "\r", "\f"}

IndexIn(c, seq) == CHOOSE i \in DOMAIN seq : seq[i] = c

\* str.lower() and str.upper(), one character
LowerChar(c) == IF IsUpper(c) THEN LowerLetters[IndexIn(c, UpperLetters)] ELSE c
UpperChar(c) == IF IsLower(c) THEN UpperLetters[IndexIn(c, LowerLetters)] ELSE c

lower(s) == [i \in DOMAIN s |-> LowerChar(s[i])]
upper(s) == [i \in DOMAIN s |-> UpperChar(s[i])]
\* str.capitalize(): first character upper case, the rest lower case
capitalize(s) == [i \in DOMAIN s |-> IF i = 1 THEN UpperChar(s[i]) ELSE LowerChar(s[i])]

\* str.strip()
strip(s) ==
    Bind({i \in DOMAIN s : ~IsSpace(s[i])},
         LAMBDA keep : IF keep = {} THEN <<>> ELSE SubSeq(s, Min(keep), Max(keep)))

\* str.split(sep) for a one-character sep: always at least one piece
split(s, sep) ==
    Bind({i \in DOMAIN s : s[i] = sep},
         LAMBDA at :
            [k \in 1..(Cardinality(at) + 1) |->
                Bind(IF k = 1 THEN 0
                     ELSE CHOOSE p \in at : Cardinality({q \in at : q < p}) = k - 2,
                     LAMBDA from :
                        Bind(IF k = Cardinality(at) + 1 THEN Len(s) + 1
                             ELSE CHOOSE p \in at : Cardinality({q \in at : q < p}) = k - 1,
                             LAMBDA to : SubSeq(s, from + 1, to - 1)))])

\* int() of a string of decimal digits
DigitVal(c) == IndexIn(c, DigitChars) - 1
int(s) ==
    LET upto[k \in 0..Len(s)] == IF k = 0 THEN 0 ELSE 10 * upto[k - 1] + DigitVal(s[k])
    IN  upto[Len(s)]

\* str(n) for n >= 0
RECURSIVE Decimal(_)
Decimal(n) == IF n < 10 THEN <<DigitChars[n + 1]>>
              ELSE Decimal(n \div 10) \o <<DigitChars[(n % 10) + 1]>>

\* the format specification :02d for n >= 0: zero-padded to a width of at least 2
Format02d(n) == IF n < 10 THEN <<"0">> \o Decimal(n) ELSE Decimal(n)

(***************************************************************************)
(* Exact arithmetic for Python floats                                      *)
(***************************************************************************)
Abs(n) == IF n < 0 THEN -n ELSE n
GCD(a, b) ==
    LET gcd[x \in Nat, y \in Nat] == IF y = 0 THEN x ELSE gcd[y, x % y]
    IN  gcd[a, b]

Rat(n, d) == Bind(GCD(Abs(n), d), LAMBDA g : <<n \div g, d \div g>>)
RatAdd(p, q) == Rat(p[1] * q[2] + q[1] * p[2], p[2] * q[2])
RatMul(p, q) == Rat(p[1] * q[1], p[2] * q[2])
RatLeq(p, q) == p[1] * q[2] <= q[1] * p[2]
RatLt(p, q) == p[1] * q[2] < q[1] * p[2]
RatGeq(p, q) == RatLeq(q, p)
RatMin(p, q) == IF RatLeq(p, q) THEN p ELSE q
Zero == <<0, 1>>
One == <<1, 1>>

\* the format specification :.2% : the value in hundredths of a percent, rounded
\* half to even
FormatPercent2(c) ==
    Bind(c[1] * 10000,
         LAMBDA num :
            IF 2 * (num % c[2]) > c[2]
               \/ (2 * (num % c[2]) = c[2] /\ (num \div c[2]) % 2 = 1)
            THEN (num \div c[2]) + 1
            ELSE num \div c[2])

(***************************************************************************)
(* Quality gates                                                           *)
(***************************************************************************)
\* OCRProcessor: confidence thresholds for quality gates
HIGH_CONFIDENCE_THRESHOLD == Rat(98, 100)
MEDIUM_CONFIDENCE_THRESHOLD == Rat(80, 100)
\* OCRService: quality gate threshold
CONFIDENCE_THRESHOLD == Rat(80, 100)

\* QualityGateDecision; the reason is the f-string's literal head, the confidence
\* formatted by :.2% and the literal tail
QualityGateDecision(route, conf, head, tail) ==
    [route |-> route, confidence |-> conf,
     reason |-> <<head, FormatPercent2(conf), tail>>]

\* the gate with > for >= at the high threshold
calculate_quality_gate_decision_strict(result) ==
    LET c == result.confidence
    IN  IF RatLt(HIGH_CONFIDENCE_THRESHOLD, c)
        THEN QualityGateDecision("validation", c, "High confidence", "direct validation")
        ELSE IF RatGeq(c, MEDIUM_CONFIDENCE_THRESHOLD)
        THEN QualityGateDecision("llm", c, "Medium confidence", "LLM processing required")
        ELSE QualityGateDecision("hitl", c, "Low confidence", "human review required")

\* the gate with its two upper branches exchanged
calculate_quality_gate_decision_swapped(result) ==
    LET c == result.confidence
    IN  IF RatGeq(c, HIGH_CONFIDENCE_THRESHOLD)
        THEN QualityGateDecision("llm", c, "Medium confidence", "LLM processing required")
        ELSE IF RatGeq(c, MEDIUM_CONFIDENCE_THRESHOLD)
        THEN QualityGateDecision("validation", c, "High confidence", "direct validation")
        ELSE QualityGateDecision("hitl", c, "Low confidence", "human review required")

\* OCRProcessor.calculate_quality_gate_decision
calculate_quality_gate_decision(result) ==
    LET c == result.confidence
    IN  IF RatGeq(c, HIGH_CONFIDENCE_THRESHOLD)
        THEN QualityGateDecision("validation", c, "High confidence", "direct validation")
        ELSE IF RatGeq(c, MEDIUM_CONFIDENCE_THRESHOLD)
        THEN QualityGateDecision("llm", c, "Medium confidence", "LLM processing required")
        ELSE QualityGateDecision("hitl", c, "Low confidence", "human review required")

\* the gate with > for >= at the threshold
calculate_quality_gate_strict(result) ==
    LET c == result.confidence
    IN  IF RatLt(CONFIDENCE_THRESHOLD, c)
        THEN QualityGateDecision("validation", c, "High confidence", "direct validation")
        ELSE QualityGateDecision("ai", c, "Medium confidence", "AI processing required")

\* OCRService.calculate_quality_gate
calculate_quality_gate(result) ==
    LET c == result.confidence
    IN  IF RatGeq(c, CONFIDENCE_THRESHOLD)
        THEN QualityGateDecision("validation", c, "High confidence", "direct validation")
        ELSE QualityGateDecision("ai", c, "Medium confidence", "AI processing required")

\* The confidences handed to the gates: a grid over [0,1], the thresholds, and the
\* values next to them at the resolution of the reason's percentage.
GateResolution == 20
GateConfidences ==
    {Rat(n, GateResolution) : n \in 0..GateResolution}
    \cup {HIGH_CONFIDENCE_THRESHOLD, MEDIUM_CONFIDENCE_THRESHOLD, CONFIDENCE_THRESHOLD}
    \cup {Rat(n, 10000) : n \in {7999, 8001, 8100, 9799, 9801}}

\* the OCRResult of the gate's tests: only its confidence varies
GateResult(c) ==
    [text |-> Chars("Sample text"), confidence |-> c, words |-> <<>>,
     engine |-> "tesseract"]

NoCall == [policy |-> "none"]
NoResult == [engine |-> "none"]

GateInit ==
    /\ ocr_result = NoResult
    /\ gate_call = NoCall
    /\ gate_prev = NoCall

\* one call of processor.calculate_quality_gate_decision(ocr_result)
CalculateQualityGateDecision ==
    \E c \in GateConfidences :
        /\ ocr_result' = GateResult(c)
        /\ gate_prev' = gate_call
        /\ gate_call' = [policy |-> "three_tier", arg |-> GateResult(c),
                         decision |-> calculate_quality_gate_decision(GateResult(c))]
        /\ UNCHANGED <<time_vars, extract_vars, conf_vars, call_vars, vision_vars, handler_vars>>

\* one call of ocr_service.calculate_quality_gate(ocr_result)
CalculateQualityGate ==
    \E c \in GateConfidences :
        /\ ocr_result' = GateResult(c)
        /\ gate_prev' = gate_call
        /\ gate_call' = [policy |-> "two_tier", arg |-> GateResult(c),
                         decision |-> calculate_quality_gate(GateResult(c))]
        /\ UNCHANGED <<time_vars, extract_vars, conf_vars, call_vars, vision_vars, handler_vars>>

(***************************************************************************)
(* OCRProcessor._normalize_time                                            *)
(***************************************************************************)
Return(v) == [kind |-> "return", value |-> v]

\* hour after "Convert 12-hour to 24-hour"
ConvertHour(hour, meridiem) ==
    IF Truthy(meridiem)
    THEN IF upper(meridiem) = <<"P", "M">> /\ hour # 12 THEN hour + 12
         ELSE IF upper(meridiem) = <<"A", "M">> /\ hour = 12 THEN 0
         ELSE hour
    ELSE hour

\* time_tuple is (hour, minute, am/pm) from the regex; an absent group is None or ''
_normalize_time(t) ==
    Format02d(ConvertHour(int(t[1]), t[3]))
    \o <<":">>
    \o Format02d(IF Truthy(t[2]) THEN int(t[2]) ELSE 0)

\* every string of n digits
DigitStrings(n) == [1..n -> DigitSet]
\* hour strings of 1 to 2 digits, minute strings of 2 digits
HourStrings == DigitStrings(1) \cup DigitStrings(2)
MinuteStrings == DigitStrings(2)
\* am and pm in any letter case
Meridiems == {<<a, m>> : a \in {"a", "A", "p", "P"}, m \in {"m", "M"}}
\* an absent group: None (the tests) or '' (re.findall)
Absent == {None, <<>>}

TimeInit ==
    /\ time_tuple = Pending
    /\ time_out = Pending

\* one call of processor._normalize_time(time_tuple)
NormalizeTime ==
    /\ time_tuple = Pending
    /\ \E h \in HourStrings, m \in MinuteStrings \cup Absent, x \in Meridiems \cup Absent :
        /\ time_tuple' = <<h, m, x>>
        /\ time_out' = Return(_normalize_time(<<h, m, x>>))
    /\ UNCHANGED <<gate_vars, extract_vars, conf_vars, call_vars, vision_vars, handler_vars>>

(***************************************************************************)
(* OCRProcessor.extract_timeblocks                                         *)
(***************************************************************************)
\* the alternatives of the day-of-week regex, in its order
DayNames == <<Chars("monday"), Chars("tuesday"), Chars("wednesday"), Chars("thursday"),
              Chars("friday"), Chars("saturday"), Chars("sunday")>>

\* \b before position i of s (between s[i-1] and s[i])
WordBoundary(s, i) ==
    (i > 1 /\ i - 1 <= Len(s) /\ IsWordChar(s[i - 1]))
    # (i >= 1 /\ i <= Len(s) /\ IsWordChar(s[i]))

\* the day-of-week regex matches name at position i of line (re.IGNORECASE)
DayMatchesAt(line, i, name) ==
    /\ i + Len(name) - 1 <= Len(line)
    /\ \A j \in DOMAIN name : LowerChar(line[i + j - 1]) = name[j]
    /\ WordBoundary(line, i)
    /\ WordBoundary(line, i + Len(name))

\* the day-of-week regex without its two \b
day_match_substring(line) ==
    Bind({h \in (DOMAIN line) \X (DOMAIN DayNames) :
            /\ h[1] + Len(DayNames[h[2]]) - 1 <= Len(line)
            /\ \A j \in DOMAIN DayNames[h[2]] :
                LowerChar(line[h[1] + j - 1]) = DayNames[h[2]][j]},
         LAMBDA hits :
            IF hits = {} THEN None
            ELSE Bind(CHOOSE h \in hits : \A g \in hits : h[1] <= g[1],
                      LAMBDA h : SubSeq(line, h[1], h[1] + Len(DayNames[h[2]]) - 1)))

\* re.search(r'\b(monday|...|sunday)\b', line, re.IGNORECASE): group(1) of the
\* leftmost match, None when there is none
day_match(line) ==
    Bind({h \in (DOMAIN line) \X (DOMAIN DayNames) : DayMatchesAt(line, h[1], DayNames[h[2]])},
         LAMBDA hits :
            IF hits = {} THEN None
            ELSE Bind(CHOOSE h \in hits : \A g \in hits : h[1] <= g[1],
                      LAMBDA h : SubSeq(line, h[1], h[1] + Len(DayNames[h[2]]) - 1)))

\* time_pattern = r'(\d{1,2})[:.:]?(\d{2})?\s*(am|pm|AM|PM)?' with re.IGNORECASE,
\* matched at position i of line, where line[i] is a digit.  Every part after the
\* first digit is optional and greedy, so the match never backtracks; each operator
\* gives the position after its part.
\* (\d{1,2}) from i
HourEnd(line, i) == IF i + 1 <= Len(line) /\ IsDigit(line[i + 1]) THEN i + 2 ELSE i + 1
\* [:.:]? from p
SeparatorEnd(line, p) == IF p <= Len(line) /\ line[p] \in {":", "."} THEN p + 1 ELSE p
\* (\d{2})? from p
MinuteEnd(line, p) ==
    IF p + 1 <= Len(line) /\ IsDigit(line[p]) /\ IsDigit(line[p + 1]) THEN p + 2 ELSE p
\* \s* from p
SpacesEnd(line, p) ==
    Min({q \in p..(Len(line) + 1) : q = Len(line) + 1 \/ ~IsSpace(line[q])})
\* (am|pm|AM|PM)? from p
MeridiemEnd(line, p) ==
    IF p + 1 <= Len(line) /\ LowerChar(line[p]) \in {"a", "p"} /\ LowerChar(line[p + 1]) = "m"
    THEN p + 2 ELSE p

TimeMatchAt(line, i) ==
    Bind(HourEnd(line, i), LAMBDA p1 :
    Bind(SeparatorEnd(line, p1), LAMBDA p2 :
    Bind(MinuteEnd(line, p2), LAMBDA p3 :
    Bind(SpacesEnd(line, p3), LAMBDA p4 :
    Bind(MeridiemEnd(line, p4), LAMBDA p5 :
        [start |-> i, stop |-> p5,
         groups |-> <<SubSeq(line, i, p1 - 1), SubSeq(line, p2, p3 - 1),
                      SubSeq(line, p4, p5 - 1)>>])))))

\* the scan of a pattern that begins with \d goes on at the next digit at or after
\* position i, or ends past the string: no match begins at another character
NextDigit(s, i) ==
    Bind({j \in i..Len(s) : IsDigit(s[j])},
         LAMBDA at : IF at = {} THEN Len(s) + 1 ELSE Min(at))

\* the non-overlapping matches of time_pattern in line, scanned left to right
TimeMatches(line) ==
    LET scan[i \in 1..(Len(line) + 1)] ==
            IF i > Len(line) THEN <<>>
            ELSE IF IsDigit(line[i])
                 THEN Bind(TimeMatchAt(line, i), LAMBDA m : <<m>> \o scan[m.stop])
                 ELSE scan[NextDigit(line, i + 1)]
    IN  scan[1]

\* re.findall(time_pattern, line, re.IGNORECASE): the group tuples
findall_times(line) ==
    Bind(TimeMatches(line), LAMBDA ms : [k \in DOMAIN ms |-> ms[k].groups])

\* re.sub(time_pattern, '', line, flags=re.IGNORECASE)
sub_times(line) ==
    Bind(TimeMatches(line), LAMBDA ms :
    Bind(SelectSeq([i \in DOMAIN line |-> i],
                   LAMBDA i : \A k \in DOMAIN ms : i < ms[k].start \/ i >= ms[k].stop),
         LAMBDA keep : [j \in DOMAIN keep |-> line[keep[j]]]))

\* the dictionary with the last time of the line as endTime
TimeBlock_last_as_end(day, times, event_name) ==
    [day |-> day,
     name |-> event_name,
     startTime |-> IF Len(times) > 0 THEN _normalize_time(times[1]) ELSE None,
     endTime |-> IF Len(times) > 1 THEN _normalize_time(times[Len(times)]) ELSE None]

\* the dictionary appended to timeblocks for line, once it is known to have times
\* and a non-empty event_name
TimeBlock(day, times, event_name) ==
    [day |-> day,
     name |-> event_name,
     startTime |-> IF Len(times) > 0 THEN _normalize_time(times[1]) ELSE None,
     endTime |-> IF Len(times) > 1 THEN _normalize_time(times[2]) ELSE None]

\* '\n'.join(ls)
RECURSIVE JoinLines(_)
JoinLines(ls) ==
    IF Len(ls) = 0 THEN <<>>
    ELSE IF Len(ls) = 1 THEN ls[1]
    ELSE ls[1] \o <<"\n">> \o JoinLines(Tail(ls))

\* The lines the texts are made of: blank, two day headers (one indented and in lower
\* case, one in upper case with a time and a label after it), a word that only
\* contains a day name, event lines with one, two and three time tokens in the
\* formats of the comment at time_pattern, an out-of-range time, a time with no
\* label, a label with no time, labels that begin with "am" or carry digits of their
\* own.
LineSamples ==
    {Chars(""), Chars("  tuesday "), Chars("FRIDAY 9:00 Maths"),
     Chars("Mondays 9:00 Club"), Chars("9:00 - 10:00 Maths"),
     Chars("12am 1.15 PM 3 Music"), Chars("25:99 Art"),
     Chars("9:00"), Chars("Lunch"), Chars("10:30 Amy"), Chars("Year 3 9am")}

MaxLines == 3

\* the text of test_extract_timeblocks_with_times, without and with its indentation
ExampleText ==
    JoinLines(<<Chars("Monday"), Chars("9:00 - 10:00 Maths"), Chars("10:00 - 11:00 English"),
                Chars(""), Chars("Tuesday"), Chars("9:00 - 10:00 Science")>>)
IndentedExampleText ==
    JoinLines(<<Chars(""), Chars("  Monday"), Chars("  9:00 - 10:00 Maths"),
                Chars("  10:00 - 11:00 English"), Chars(""), Chars("  Tuesday"),
                Chars("  9:00 - 10:00 Science"), Chars("  ")>>)

\* every text of up to n sample lines, and the two examples
Texts(n) ==
    {JoinLines(ls) : ls \in UNION {[1..k -> LineSamples] : k \in 0..n}}
    \cup {ExampleText, IndentedExampleText}

ExtractInit ==
    /\ text = Pending
    /\ lines = <<>>
    /\ line_no = 0
    /\ current_day = None
    /\ timeblocks = <<>>
    /\ pc = "idle"

\* the head of extract_timeblocks with current_day kept in an attribute of the
\* instance, set to None at construction only
CallExtractTimeblocks_keeping_day(t) ==
    /\ text' = t
    /\ lines' = split(strip(t), "\n")
    /\ line_no' = 1
    /\ current_day' = current_day
    /\ timeblocks' = <<>>
    /\ pc' = "loop"

\* extract_timeblocks(t) up to the head of the loop: timeblocks = [], the lines,
\* current_day = None
CallExtractTimeblocks(t) ==
    /\ text' = t
    /\ lines' = split(strip(t), "\n")
    /\ line_no' = 1
    /\ current_day' = None
    /\ timeblocks' = <<>>
    /\ pc' = "loop"

\* the call extract_timeblocks(text), up to the head of the loop
ExtractTimeblocks ==
    /\ pc = "idle"
    /\ \E t \in Texts(MaxLines) : CallExtractTimeblocks(t)
    /\ UNCHANGED <<gate_vars, time_vars, conf_vars, call_vars, vision_vars, handler_vars>>

\* the line of the current iteration, after line = line.strip()
Line == strip(lines[line_no])
InLoop == pc = "loop" /\ line_no <= Len(lines)

\* if not line: continue
BlankLine ==
    /\ InLoop
    /\ Line = <<>>
    /\ line_no' = line_no + 1
    /\ UNCHANGED <<text, lines, current_day, timeblocks, pc>>
    /\ UNCHANGED <<gate_vars, time_vars, conf_vars, call_vars, vision_vars, handler_vars>>

\* a day line that sets current_day only while it is still None
DayLine_first_day_only ==
    /\ InLoop
    /\ \E line \in {Line} :
        /\ line # <<>>
        /\ \E day \in {day_match(line)} :
            /\ day # None
            /\ current_day' = IF current_day = None THEN capitalize(day) ELSE current_day
    /\ line_no' = line_no + 1
    /\ UNCHANGED <<text, lines, timeblocks, pc>>
    /\ UNCHANGED <<gate_vars, time_vars, conf_vars, call_vars, vision_vars, handler_vars>>

\* if day_match: current_day = day_match.group(1).capitalize(); continue
DayLine ==
    /\ InLoop
    /\ \E line \in {Line} :
        /\ line # <<>>
        /\ \E day \in {day_match(line)} :
            /\ day # None
            /\ current_day' = capitalize(day)
    /\ line_no' = line_no + 1
    /\ UNCHANGED <<text, lines, timeblocks, pc>>
    /\ UNCHANGED <<gate_vars, time_vars, conf_vars, call_vars, vision_vars, handler_vars>>

\* the residual of line: re.sub(...).strip()
EventName(line) == strip(sub_times(line))

\* an event line that is appended whether or not a day has been seen
EventLine_without_day ==
    /\ InLoop
    /\ \E line \in {Line} :
        /\ line # <<>>
        /\ day_match(line) = None
        /\ \E times \in {findall_times(line)} :
            /\ times # <<>>
            /\ \E event_name \in {EventName(line)} :
                /\ event_name # <<>>
                /\ timeblocks' = Append(timeblocks, TimeBlock(current_day, times, event_name))
    /\ line_no' = line_no + 1
    /\ UNCHANGED <<text, lines, current_day, pc>>
    /\ UNCHANGED <<gate_vars, time_vars, conf_vars, call_vars, vision_vars, handler_vars>>

\* if times and current_day: ... if event_name: timeblocks.append({...})
EventLine ==
    /\ InLoop
    /\ \E line \in {Line} :
        /\ line # <<>>
        /\ day_match(line) = None
        /\ \E times \in {findall_times(line)} :
            /\ times # <<>> /\ Truthy(current_day)
            /\ \E event_name \in {EventName(line)} :
                /\ event_name # <<>>
                /\ timeblocks' = Append(timeblocks, TimeBlock(current_day, times, event_name))
    /\ line_no' = line_no + 1
    /\ UNCHANGED <<text, lines, current_day, pc>>
    /\ UNCHANGED <<gate_vars, time_vars, conf_vars, call_vars, vision_vars, handler_vars>>

\* a line that is neither blank nor a day and fails one of the two ifs
OtherLine ==
    /\ InLoop
    /\ \E line \in {Line} :
        /\ line # <<>>
        /\ day_match(line) = None
        /\ \E times \in {findall_times(line)} :
            ~(times # <<>> /\ Truthy(current_day) /\ EventName(line) # <<>>)
    /\ line_no' = line_no + 1
    /\ UNCHANGED <<text, lines, current_day, timeblocks, pc>>
    /\ UNCHANGED <<gate_vars, time_vars, conf_vars, call_vars, vision_vars, handler_vars>>

\* return timeblocks
ExtractReturn ==
    /\ pc = "loop"
    /\ line_no > Len(lines)
    /\ pc' = "done"
    /\ UNCHANGED <<text, lines, line_no, current_day, timeblocks>>
    /\ UNCHANGED <<gate_vars, time_vars, conf_vars, call_vars, vision_vars, handler_vars>>

\* extract_timeblocks(t) as one function: loop[i] is <<current_day, timeblocks>>
\* after the first i lines
extract_timeblocks(t) ==
    Bind(split(strip(t), "\n"), LAMBDA ls :
        LET loop[i \in 0..Len(ls)] ==
                IF i = 0 THEN <<None, <<>>>>
                ELSE Bind(strip(ls[i]), LAMBDA line :
                     Bind(loop[i - 1], LAMBDA before :
                        IF line = <<>> THEN before
                        ELSE Bind(day_match(line), LAMBDA day :
                            IF day # None THEN <<capitalize(day), before[2]>>
                            ELSE Bind(findall_times(line), LAMBDA times :
                                 Bind(EventName(line), LAMBDA event_name :
                                    IF times # <<>> /\ Truthy(before[1]) /\ event_name # <<>>
                                    THEN <<before[1],
                                           Append(before[2],
                                                  TimeBlock(before[1], times, event_name))>>
                                    ELSE before)))))
        IN  loop[Len(ls)][2])

(***************************************************************************)
(* _calculate_confidence and its four factors                              *)
(***************************************************************************)
SumSeq(xs) ==
    LET upto[k \in 0..Len(xs)] == IF k = 0 THEN 0 ELSE upto[k - 1] + xs[k]
    IN  upto[Len(xs)]

\* the mean of the raw entries of data['conf'], sentinels included, on their 0..100 scale
mean_char_confidence_raw(d) ==
    IF Len(d.conf) = 0 THEN Zero ELSE Rat(SumSeq(d.conf), Len(d.conf))

\* the mean with the entries of confidence 0 counted among the detections
mean_char_confidence_with_zeros(d) ==
    Bind(SelectSeq(d.conf, LAMBDA c : c >= 0),
         LAMBDA cs : IF Len(cs) = 0 THEN Zero ELSE Rat(SumSeq(cs), 100 * Len(cs)))

\* Factor 1: np.mean of float(c) / 100.0 over the c of data['conf'] with int(c) > 0,
\* 0.0 when there is none
mean_char_confidence(d) ==
    Bind(SelectSeq(d.conf, LAMBDA c : c > 0),
         LAMBDA cs : IF Len(cs) = 0 THEN Zero ELSE Rat(SumSeq(cs), 100 * Len(cs)))

\* words = [w for w in data['text'] if w.strip()]
NonBlankWords(d) == SelectSeq(d.text, LAMBDA w : strip(w) # <<>>)

\* OCRProcessor._calculate_dictionary_match: timetable_vocab
timetable_vocab ==
    {Chars("monday"), Chars("tuesday"), Chars("wednesday"), Chars("thursday"),
     Chars("friday"), Chars("saturday"), Chars("sunday"),
     Chars("maths"), Chars("english"), Chars("science"), Chars("history"),
     Chars("geography"), Chars("art"), Chars("music"), Chars("pe"), Chars("physical"),
     Chars("education"), Chars("assembly"), Chars("registration"), Chars("break"),
     Chars("lunch"), Chars("recess"), Chars("reading"), Chars("writing"),
     Chars("phonics"), Chars("spelling")}
\* OCRService._calculate_dictionary_match: timetable_vocab
OCRService_timetable_vocab == timetable_vocab \cup {Chars("class")}

\* matches / len(words), 0.0 for no words
DictionaryMatch(words, vocab) ==
    IF Len(words) = 0 THEN Zero
    ELSE Rat(Len(SelectSeq(words, LAMBDA w : lower(w) \in vocab)), Len(words))

_calculate_dictionary_match(words) == DictionaryMatch(words, timetable_vocab)
OCRService_calculate_dictionary_match(words) ==
    DictionaryMatch(words, OCRService_timetable_vocab)

\* _detect_layout_consistency, the same code in both classes
_detect_layout_consistency(d) ==
    IF Len(d.text) = 0 THEN Zero
    ELSE IF Len(d.text) > 10 THEN Rat(8, 10) ELSE Rat(5, 10)
OCRService_detect_layout_consistency(d) ==
    IF Len(d.text) = 0 THEN Zero
    ELSE IF Len(d.text) > 10 THEN Rat(8, 10) ELSE Rat(5, 10)

\* time_pattern = r'\b(\d{1,2})[:.:]?(\d{2})?\s*(am|pm|AM|PM)?\b' without re.IGNORECASE.
\* The closing \b can fail, so the match backtracks: a candidate is the lengths
\* <<hour, separator, minute, spaces, meridiem>> of the five parts, and the regex
\* engine takes the first that ends on a word boundary, trying the longer choice of
\* each part first, the earlier parts varying last.
PatternEnd(i, c) == i + c[1] + c[2] + c[3] + c[4] + c[5]
\* (\d{1,2})[:.:]?(\d{2})? with the lengths c[1], c[2], c[3] fits at i
PatternHeadFits(s, i, c) ==
    /\ i + c[1] + c[2] + c[3] <= Len(s) + 1
    /\ \A k \in i..(i + c[1] - 1) : IsDigit(s[k])
    /\ c[2] = 1 => s[i + c[1]] \in {":", "."}
    /\ \A k \in (i + c[1] + c[2])..(i + c[1] + c[2] + c[3] - 1) : IsDigit(s[k])
\* \s*(am|pm|AM|PM)?\b with the lengths c[4], c[5] fits after the head
PatternTailFits(s, i, c) ==
    /\ PatternEnd(i, c) <= Len(s) + 1
    /\ c[5] = 2 => SubSeq(s, PatternEnd(i, c) - 2, PatternEnd(i, c) - 1)
                     \in {<<"a", "m">>, <<"p", "m">>, <<"A", "M">>, <<"P", "M">>}
    /\ WordBoundary(s, PatternEnd(i, c))
\* the candidates that match at i
PatternFits(s, i) ==
    UNION {Bind(i + h[1] + h[2] + h[3],
                LAMBDA p : {c \in {<<h[1], h[2], h[3], w, x>> :
                                      w \in 0..(SpacesEnd(s, p) - p), x \in {0, 2}} :
                              PatternTailFits(s, i, c)}) :
           h \in {g \in (1..2) \X (0..1) \X {0, 2} : PatternHeadFits(s, i, g)}}
\* the order in which the engine tries the candidates: larger is earlier
PatternRank(s, c) == (((c[1] * 2 + c[2]) * 3 + c[3]) * (Len(s) + 1) + c[4]) * 3 + c[5]

\* the position after the match of time_pattern at i, 0 when it does not match there
PatternMatchEnd(s, i) ==
    IF ~(IsDigit(s[i]) /\ WordBoundary(s, i)) THEN 0
    ELSE Bind(PatternFits(s, i),
              LAMBDA fits :
                IF fits = {} THEN 0
                ELSE PatternEnd(i, CHOOSE c \in fits :
                                     \A e \in fits : PatternRank(s, c) >= PatternRank(s, e)))

\* len(re.findall(time_pattern, text))
CountTimePatterns(s) ==
    LET scan[i \in 1..(Len(s) + 1)] ==
            IF i > Len(s) THEN 0
            ELSE Bind(PatternMatchEnd(s, i),
                      LAMBDA e : IF e = 0 THEN scan[NextDigit(s, i + 1)] ELSE 1 + scan[e])
    IN  scan[1]

\* the score for a number of matches
TimePatternScore(n) ==
    IF n >= 5 THEN One
    ELSE IF n >= 3 THEN Rat(8, 10)
    ELSE IF n >= 1 THEN Rat(6, 10)
    ELSE Zero

\* _detect_time_patterns, the same code in both classes
_detect_time_patterns(s) == TimePatternScore(CountTimePatterns(s))
OCRService_detect_time_patterns(s) == TimePatternScore(CountTimePatterns(s))

\* the weights of the character confidence and of the dictionary match exchanged
WeightedAverage_swapped(char, dict, layout, time) ==
    Bind(RatAdd(RatMul(Rat(2, 10), char), RatMul(Rat(4, 10), dict)), LAMBDA a :
    Bind(RatAdd(RatMul(Rat(2, 10), layout), RatMul(Rat(2, 10), time)), LAMBDA b :
    Bind(RatAdd(a, b), LAMBDA c : RatMin(c, One))))

\* the weighted average of _calculate_confidence and its cap
WeightedAverage(char, dict, layout, time) ==
    Bind(RatAdd(RatMul(Rat(4, 10), char), RatMul(Rat(2, 10), dict)), LAMBDA a :
    Bind(RatAdd(RatMul(Rat(2, 10), layout), RatMul(Rat(2, 10), time)), LAMBDA b :
    Bind(RatAdd(a, b), LAMBDA c : RatMin(c, One))))

\* OCRProcessor._calculate_confidence
_calculate_confidence(d, s) ==
    WeightedAverage(mean_char_confidence(d),
                    _calculate_dictionary_match(NonBlankWords(d)),
                    _detect_layout_consistency(d),
                    _detect_time_patterns(s))

\* OCRService._calculate_confidence
OCRService_calculate_confidence(d, s) ==
    WeightedAverage(mean_char_confidence(d),
                    OCRService_calculate_dictionary_match(NonBlankWords(d)),
                    OCRService_detect_layout_consistency(d),
                    OCRService_detect_time_patterns(s))

\* Raw engine output: entries <<text, conf>> with conf a sentinel -1 or 0..100; a base
\* of up to MaxWords entries, alone or followed by PadWords copies of one entry, so
\* that the length lies on both sides of the layout breakpoint.  The words are in
\* both vocabularies, in that of OCRService only, in neither, and blank.
EntrySamples ==
    {<<Chars("Monday"), -1>>, <<Chars("Monday"), 45>>, <<Chars("class"), 0>>,
     <<Chars("class"), 100>>, <<Chars("abc"), 0>>, <<Chars("abc"), 100>>,
     <<Chars(" "), -1>>, <<Chars(" "), 45>>}
PadSamples == {<<Chars("Maths"), 100>>, <<Chars("x1"), 1>>, <<Chars(""), -1>>}
MaxWords == 2
PadWords == 10

DataOf(entries) ==
    [text |-> [i \in DOMAIN entries |-> entries[i][1]],
     conf |-> [i \in DOMAIN entries |-> entries[i][2]]]

EngineData(n) ==
    {DataOf(base \o [i \in 1..k |-> pad]) :
        base \in UNION {[1..m -> EntrySamples] : m \in 0..n},
        pad \in PadSamples, k \in {0, PadWords}}

\* texts with 0, 1, 3 and 5 matches of time_pattern, and two whose meridiems are in
\* mixed case
TextSamples ==
    {Chars(""), Chars("Monday Tuesday Wednesday"), Chars("abc xyz 123"),
     Chars("Monday 9:00 Maths English"), Chars("9:00 10.30 11am"),
     Chars("9:00 Maths 10:00 English 11:00 Science 12:00 Lunch 1:00pm Art"),
     Chars("9Am 10 Pm"), Chars("9pM")}

NoData == [pending |-> TRUE]
NoConfidence == [by |-> "nobody"]

ConfInit ==
    /\ data = NoData
    /\ full_text = Pending
    /\ confidence = NoConfidence

\* what a call of _calculate_confidence computes: its four local signals and the
\* value it returns
Confidence(d, s) ==
    [by |-> "OCRProcessor",
     mean_char_confidence |-> mean_char_confidence(d),
     dict_match |-> _calculate_dictionary_match(NonBlankWords(d)),
     layout_score |-> _detect_layout_consistency(d),
     pattern_score |-> _detect_time_patterns(s),
     value |-> _calculate_confidence(d, s)]
OCRService_Confidence(d, s) ==
    [by |-> "OCRService",
     mean_char_confidence |-> mean_char_confidence(d),
     dict_match |-> OCRService_calculate_dictionary_match(NonBlankWords(d)),
     layout_score |-> OCRService_detect_layout_consistency(d),
     pattern_score |-> OCRService_detect_time_patterns(s),
     value |-> OCRService_calculate_confidence(d, s)]

\* one call of processor._calculate_confidence(data, text)
CalculateConfidence ==
    /\ confidence = NoConfidence
    /\ \E d \in EngineData(MaxWords), s \in TextSamples :
        /\ data' = d
        /\ full_text' = s
        /\ confidence' = Confidence(d, s)
    /\ UNCHANGED <<gate_vars, time_vars, extract_vars, call_vars, vision_vars, handler_vars>>

\* one call of ocr_service._calculate_confidence(data, text)
ServiceCalculateConfidence ==
    /\ confidence = NoConfidence
    /\ \E d \in EngineData(MaxWords), s \in TextSamples :
        /\ data' = d
        /\ full_text' = s
        /\ confidence' = OCRService_Confidence(d, s)
    /\ UNCHANGED <<gate_vars, time_vars, extract_vars, call_vars, vision_vars, handler_vars>>

(***************************************************************************)
(* _extract_words and process_image                                        *)
(***************************************************************************)
\* an exception that leaves the function
Raise(e) == [kind |-> "raise", error |-> e]

\* sep.join(ss)
join(sep, ss) ==
    LET upto[k \in 0..Len(ss)] ==
            IF k = 0 THEN <<>>
            ELSE IF k = 1 THEN ss[1]
            ELSE upto[k - 1] \o sep \o ss[k]
    IN  upto[Len(ss)]

\* the loop of _extract_words reads data['conf'][i] for every i below len(data['text'])
\* and, where int(conf) > 0, the other five lists at i; a list that is too short
\* there ends the call with an IndexError
IndexFails(d, i) ==
    \/ i > Len(d.conf)
    \/ /\ d.conf[i] > 0
       /\ \E f \in {"left", "top", "width", "height"} : i > Len(d[f])

\* the word appended for index i
Word(d, i) ==
    [text |-> d.text[i], confidence |-> Rat(d.conf[i], 100),
     left |-> d.left[i], top |-> d.top[i], width |-> d.width[i], height |-> d.height[i]]

\* the loop of _extract_words with int(conf) >= 0 as its filter
ExtractWords_with_zeros(d) ==
    IF \E i \in DOMAIN d.text :
            \/ i > Len(d.conf)
            \/ d.conf[i] >= 0 /\ \E f \in {"left", "top", "width", "height"} : i > Len(d[f])
    THEN Raise("IndexError")
    ELSE Bind(SelectSeq([i \in DOMAIN d.text |-> i], LAMBDA i : d.conf[i] >= 0),
              LAMBDA kept : Return([k \in DOMAIN kept |-> Word(d, kept[k])]))

\* the loop of _extract_words
ExtractWords(d) ==
    IF \E i \in DOMAIN d.text : IndexFails(d, i) THEN Raise("IndexError")
    ELSE Bind(SelectSeq([i \in DOMAIN d.text |-> i], LAMBDA i : d.conf[i] > 0),
              LAMBDA kept : Return([k \in DOMAIN kept |-> Word(d, kept[k])]))

\* OCRProcessor._extract_words (dictionaries) and OCRService._extract_words (OCRWord
\* objects of the same six fields)
_extract_words(d) == ExtractWords(d)
OCRService_extract_words(d) == ExtractWords(d)

\* Output of pytesseract.image_to_data: six parallel lists.  A box is <<text, conf,
\* left, top, width, height>>; the confidences are the sentinel -1, 0, the smallest
\* and the largest detection and the two of the word-extraction tests.
BoxSamples ==
    {<<Chars("Monday"), 95, 10, 20, 30, 40>>, <<Chars(""), -1, 0, 0, 0, 0>>,
     <<Chars("Maths"), 98, 50, 60, 70, 80>>, <<Chars("x"), 0, 1, 2, 3, 4>>,
     <<Chars("9:00"), 100, 5, 6, 7, 8>>, <<Chars("abc"), 1, 9, 9, 9, 9>>}
MaxBoxes == 3
DataFields == <<"text", "conf", "left", "top", "width", "height">>

BoxData(boxes) ==
    [f \in Range(DataFields) |->
        [i \in DOMAIN boxes |-> boxes[i][CHOOSE k \in DOMAIN DataFields : DataFields[k] = f]]]

\* d with the list f one entry shorter (by = -1) or one entry longer (by = 1)
Misshapen(d, f, by) ==
    IF by = 1 THEN [d EXCEPT ![f] = Append(@, IF f = "text" THEN Chars("Art") ELSE 77)]
    ELSE [d EXCEPT ![f] = SubSeq(@, 1, Len(@) - 1)]

\* engine output of up to n boxes: well-formed, or with one list of another length
TesseractData(n) ==
    UNION {{BoxData(boxes)} \cup {Misshapen(BoxData(boxes), f, by) :
                                    f \in Range(DataFields), by \in {-1, 1}} :
           boxes \in UNION {[1..k -> BoxSamples] : k \in 0..n}}

\* OCRResult(text=full_text, confidence=confidence, words=words, engine="tesseract")
OCRResult(full, conf, words) ==
    [text |-> full, confidence |-> conf, words |-> words, engine |-> "tesseract"]
\* ocr_result is an OCRResult that process_image returned
Processed == data # NoData /\ ocr_result # NoResult /\ "engine" \in DOMAIN ocr_result

\* OCRProcessor.process_image from the engine output d on: the words, the text joined
\* from them, the confidence; an exception of _extract_words leaves process_image
CallProcessImage(d) ==
    \E words \in {_extract_words(d)} :
        /\ data' = d
        /\ IF words.kind = "raise"
           THEN /\ ocr_result' = words
                /\ UNCHANGED <<full_text, confidence>>
           ELSE \E full \in {join(<<" ">>, [k \in DOMAIN words.value |-> words.value[k].text])} :
                \E conf \in {Confidence(d, full)} :
                    /\ full_text' = full
                    /\ confidence' = conf
                    /\ ocr_result' = OCRResult(full, conf.value, words.value)

\* one call of processor.process_image
ProcessImage ==
    /\ data = NoData /\ ocr_result = NoResult
    /\ \E d \in TesseractData(MaxBoxes) : CallProcessImage(d)
    /\ UNCHANGED <<gate_call, gate_prev, time_vars, extract_vars, call_vars, vision_vars, handler_vars>>

\* OCRService.process_image from the engine output d on
CallServiceProcessImage(d) ==
    \E words \in {OCRService_extract_words(d)} :
        /\ data' = d
        /\ IF words.kind = "raise"
           THEN /\ ocr_result' = words
                /\ UNCHANGED <<full_text, confidence>>
           ELSE \E full \in {join(<<" ">>, [k \in DOMAIN words.value |-> words.value[k].text])} :
                \E conf \in {OCRService_Confidence(d, full)} :
                    /\ full_text' = full
                    /\ confidence' = conf
                    /\ ocr_result' = OCRResult(full, conf.value, words.value)

\* one call of ocr_service.process_image
ServiceProcessImage ==
    /\ data = NoData /\ ocr_result = NoResult
    /\ \E d \in TesseractData(MaxBoxes) : CallServiceProcessImage(d)
    /\ UNCHANGED <<gate_call, gate_prev, time_vars, extract_vars, call_vars, vision_vars, handler_vars>>

\* a gate that rounds the confidence of the result it is given, in place
HandlerQualityGate_rounding_result ==
    /\ Processed /\ confidence.by = "OCRProcessor" /\ gate_call = NoCall
    /\ gate_prev' = gate_call
    /\ gate_call' = [policy |-> "three_tier", arg |-> ocr_result,
                     decision |-> calculate_quality_gate_decision(ocr_result)]
    /\ ocr_result' = [ocr_result EXCEPT !.confidence = Rat(FormatPercent2(@) \div 100, 100)]
    /\ UNCHANGED <<time_vars, extract_vars, conf_vars, call_vars, vision_vars, handler_vars>>

\* the Lambda handler: decision = processor.calculate_quality_gate_decision(ocr_result)
HandlerQualityGate ==
    /\ Processed /\ confidence.by = "OCRProcessor" /\ gate_call = NoCall
    /\ gate_prev' = gate_call
    /\ gate_call' = [policy |-> "three_tier", arg |-> ocr_result,
                     decision |-> calculate_quality_gate_decision(ocr_result)]
    /\ UNCHANGED <<ocr_result, time_vars, extract_vars, conf_vars, call_vars, vision_vars, handler_vars>>

\* the /ocr/quality-gate endpoint: decision = ocr_service.calculate_quality_gate(result)
ApiQualityGate ==
    /\ Processed /\ confidence.by = "OCRService" /\ gate_call = NoCall
    /\ gate_prev' = gate_call
    /\ gate_call' = [policy |-> "two_tier", arg |-> ocr_result,
                     decision |-> calculate_quality_gate(ocr_result)]
    /\ UNCHANGED <<ocr_result, time_vars, extract_vars, conf_vars, call_vars, vision_vars, handler_vars>>

(***************************************************************************)
(* The pipeline: process_image, then the quality gate and extract_timeblocks *)
(* on its result                                                           *)
(***************************************************************************)
\* process_image as one function of the engine output
process_image(d) ==
    Bind(_extract_words(d), LAMBDA words :
        IF words.kind = "raise" THEN words
        ELSE Bind(join(<<" ">>, [k \in DOMAIN words.value |-> words.value[k].text]),
                  LAMBDA full : OCRResult(full, _calculate_confidence(d, full), words.value)))
OCRService_process_image(d) ==
    Bind(OCRService_extract_words(d), LAMBDA words :
        IF words.kind = "raise" THEN words
        ELSE Bind(join(<<" ">>, [k \in DOMAIN words.value |-> words.value[k].text]),
                  LAMBDA full :
                    OCRResult(full, OCRService_calculate_confidence(d, full), words.value)))

\* the boxes of a page: words with a confidence, laid out left to right
PageBoxes(entries) == [i \in DOMAIN entries |-> <<entries[i][1], entries[i][2], 10 * i, 20, 30, 40>>]
\* Engine outputs of whole pages: the row of the time-pattern test, an event with no
\* day, the fixture of the word-extraction tests, a page of one non-detection, a page
\* whose lists differ in length, and pages with a line break inside a word.
Pages ==
    {BoxData(PageBoxes(<<<<Chars("Monday"), 96>>, <<Chars("9:00"), 96>>, <<Chars("Maths"), 96>>,
                         <<Chars("10:00"), 96>>, <<Chars("English"), 96>>,
                         <<Chars("11:00"), 96>>, <<Chars("Science"), 96>>,
                         <<Chars("12:00"), 96>>, <<Chars("Lunch"), 96>>,
                         <<Chars("1:00pm"), 96>>, <<Chars("Art"), 96>>>>)),
     BoxData(PageBoxes(<<<<Chars("9:00"), 100>>, <<Chars("Maths"), 98>>>>)),
     BoxData(PageBoxes(<<<<Chars("Monday"), 95>>, <<Chars(""), -1>>, <<Chars("Maths"), 98>>>>)),
     BoxData(PageBoxes(<<<<Chars(""), -1>>>>)),
     Misshapen(BoxData(PageBoxes(<<<<Chars("9:00"), 100>>, <<Chars("Maths"), 98>>>>)),
               "conf", -1),
     BoxData(PageBoxes(<<<<Chars("Monday\n9:00"), 95>>, <<Chars("Maths"), 98>>>>)),
     BoxData(PageBoxes(<<<<Chars("Tuesday\n\nLunch\n10:30"), 90>>, <<Chars("Amy"), 80>>>>)),
     BoxData(PageBoxes(<<<<Chars("FRIDAY"), 30>>, <<Chars("9:00\n9.30"), 45>>,
                         <<Chars("-"), 0>>, <<Chars("10am"), 60>>, <<Chars("Club"), 75>>>>))}

\* ocr_result = processor.process_image(path) for a page
PipelineProcessImage ==
    /\ data = NoData /\ ocr_result = NoResult
    /\ \E d \in Pages : CallProcessImage(d)
    /\ UNCHANGED <<gate_call, gate_prev, time_vars, extract_vars, call_vars, vision_vars, handler_vars>>

\* result = ocr_service.process_image(path) for a page
PipelineServiceProcessImage ==
    /\ data = NoData /\ ocr_result = NoResult
    /\ \E d \in Pages : CallServiceProcessImage(d)
    /\ UNCHANGED <<gate_call, gate_prev, time_vars, extract_vars, call_vars, vision_vars, handler_vars>>

\* processor.extract_timeblocks(ocr_result.text), up to the head of the loop
ExtractFromResult ==
    /\ pc = "idle"
    /\ Processed
    /\ CallExtractTimeblocks(ocr_result.text)
    /\ UNCHANGED <<gate_vars, time_vars, conf_vars, call_vars, vision_vars, handler_vars>>

(***************************************************************************)
(* Calls on one long-lived instance                                        *)
(***************************************************************************)
\* a completed call: the method, its arguments, what it returned
Call(fn, args, result) == [fn |-> fn, args |-> args, result |-> result]

\* the calls of one session: texts with and without a day header, confidences on
\* both sides of the thresholds, one engine output
MaxCalls == 3
SessionTexts ==
    {JoinLines(<<Chars("Monday"), Chars(""), Chars("9:00 Maths")>>), Chars("9:00 Maths"),
     JoinLines(<<Chars("  tuesday "), Chars("Lunch")>>)}
SessionConfidences == {Rat(79, 100), Rat(98, 100)}
SessionData == DataOf(<<<<Chars("Monday"), 45>>, <<Chars("abc"), 100>>>>)
SessionFullText == Chars("9:00 10.30 11am")

CallInit == history = <<>>

\* processor.extract_timeblocks(t) is called while no call of it is running
SessionExtractTimeblocks ==
    /\ pc = "idle"
    /\ Len(history) < MaxCalls
    /\ \E t \in SessionTexts : CallExtractTimeblocks(t)
    /\ UNCHANGED <<gate_vars, time_vars, conf_vars, call_vars, vision_vars, handler_vars>>

\* return timeblocks; the locals of the call are garbage from here on
SessionExtractReturn ==
    /\ pc = "loop"
    /\ line_no > Len(lines)
    /\ pc' = "idle"
    /\ history' = Append(history, Call("extract_timeblocks", <<text>>, timeblocks))
    /\ UNCHANGED <<text, lines, line_no, current_day, timeblocks>>
    /\ UNCHANGED <<gate_vars, time_vars, conf_vars, vision_vars, handler_vars>>

\* processor.calculate_quality_gate_decision(result)
SessionQualityGateDecision ==
    /\ Len(history) < MaxCalls
    /\ \E c \in SessionConfidences :
        \E decision \in {calculate_quality_gate_decision(GateResult(c))} :
            /\ ocr_result' = GateResult(c)
            /\ gate_prev' = gate_call
            /\ gate_call' = [policy |-> "three_tier", arg |-> GateResult(c),
                             decision |-> decision]
            /\ history' = Append(history, Call("calculate_quality_gate_decision",
                                               <<GateResult(c)>>, decision))
    /\ UNCHANGED <<time_vars, extract_vars, conf_vars, vision_vars, handler_vars>>

\* ocr_service.calculate_quality_gate(result), ocr_service being the module-level
\* instance of api/ocr.py
SessionQualityGate ==
    /\ Len(history) < MaxCalls
    /\ \E c \in SessionConfidences :
        \E decision \in {calculate_quality_gate(GateResult(c))} :
            /\ ocr_result' = GateResult(c)
            /\ gate_prev' = gate_call
            /\ gate_call' = [policy |-> "two_tier", arg |-> GateResult(c),
                             decision |-> decision]
            /\ history' = Append(history, Call("calculate_quality_gate",
                                               <<GateResult(c)>>, decision))
    /\ UNCHANGED <<time_vars, extract_vars, conf_vars, vision_vars, handler_vars>>

\* processor._calculate_confidence(data, text)
SessionCalculateConfidence ==
    /\ Len(history) < MaxCalls
    /\ \E conf \in {Confidence(SessionData, SessionFullText)} :
        /\ data' = SessionData
        /\ full_text' = SessionFullText
        /\ confidence' = conf
        /\ history' = Append(history, Call("_calculate_confidence",
                                           <<SessionData, SessionFullText>>, conf.value))
    /\ UNCHANGED <<gate_vars, time_vars, extract_vars, vision_vars, handler_vars>>

\* ocr_service._calculate_confidence(data, text)
SessionServiceCalculateConfidence ==
    /\ Len(history) < MaxCalls
    /\ \E conf \in {OCRService_Confidence(SessionData, SessionFullText)} :
        /\ data' = SessionData
        /\ full_text' = SessionFullText
        /\ confidence' = conf
        /\ history' = Append(history, Call("OCRService._calculate_confidence",
                                           <<SessionData, SessionFullText>>, conf.value))
    /\ UNCHANGED <<gate_vars, time_vars, extract_vars, vision_vars, handler_vars>>

(***************************************************************************)
(* OCRProcessor.process_with_cloud_vision                                  *)
(***************************************************************************)
\* an exception with a message
RaiseWith(e, message) == [kind |-> "raise", error |-> e, message |-> message]

\* hasattr(a, f)
hasattr(a, f) == f \in DOMAIN a

\* np.mean of a non-empty list of floats
Mean(xs) ==
    LET upto[k \in 0..Len(xs)] == IF k = 0 THEN Zero ELSE RatAdd(upto[k - 1], xs[k])
    IN  Bind(upto[Len(xs)], LAMBDA sum : Rat(sum[1], sum[2] * Len(xs)))

\* _calculate_confidence_from_words
_calculate_confidence_from_words(words) ==
    IF Len(words) = 0 THEN Zero
    ELSE Bind(SelectSeq(words, LAMBDA w : "confidence" \in DOMAIN w),
              LAMBDA having :
                IF Len(having) = 0 THEN Rat(9, 10)
                ELSE Mean([k \in DOMAIN having |-> having[k].confidence]))

\* the dictionary appended for an annotation
VisionWord(a) ==
    [text |-> a.description,
     confidence |-> IF hasattr(a, "confidence") THEN a.confidence ELSE One]

\* the words taken from every annotation, the first included
VisionWords_with_first(anns) == [k \in DOMAIN anns |-> VisionWord(anns[k])]

\* words: for text in texts[1:]
VisionWords(anns) == [k \in 1..(Len(anns) - 1) |-> VisionWord(anns[k + 1])]

\* OCRResult(..., engine="google_cloud_vision")
VisionResult(full, conf, words) ==
    [text |-> full, confidence |-> conf, words |-> words, engine |-> "google_cloud_vision"]

\* process_with_cloud_vision from the response of the engine on
CloudVisionResult(anns) ==
    IF Len(anns) = 0 THEN VisionResult(<<>>, Zero, <<>>)
    ELSE Bind(VisionWords(anns), LAMBDA words :
            VisionResult(anns[1].description, _calculate_confidence_from_words(words), words))

\* Annotations of a response: the full text and words of the cloud-vision test, each
\* with the confidence the test gives it and without a confidence attribute, and a
\* word of confidence 0.
AnnotationSamples ==
    {[description |-> Chars("Monday 9:00"), confidence |-> Rat(95, 100)],
     [description |-> Chars("Monday 9:00")],
     [description |-> Chars("Monday"), confidence |-> Rat(96, 100)],
     [description |-> Chars("Monday")],
     [description |-> Chars("9:00"), confidence |-> Rat(94, 100)],
     [description |-> Chars("9:00")],
     [description |-> Chars("x"), confidence |-> Zero]}
MaxAnnotations == 3
Responses(n) == UNION {[1..k -> AnnotationSamples] : k \in 0..n}

\* texts before the engine has answered
NoResponse == <<[pending |-> TRUE]>>

\* OCRProcessor(): use_cloud_vision defaults to False
VisionInit ==
    /\ use_cloud_vision = FALSE
    /\ texts = NoResponse
    /\ engine_calls = 0

\* OCRProcessor(use_cloud_vision=True)
ConstructWithCloudVision ==
    /\ ~use_cloud_vision
    /\ ocr_result = NoResult
    /\ use_cloud_vision' = TRUE
    /\ UNCHANGED <<texts, engine_calls>>
    /\ UNCHANGED <<gate_vars, time_vars, extract_vars, conf_vars, call_vars, handler_vars>>

\* one call of processor.process_with_cloud_vision(image_path): the check of
\* use_cloud_vision, open(), text_detection, the result
ProcessWithCloudVision ==
    /\ ocr_result = NoResult
    /\ \/ /\ ~use_cloud_vision
          /\ ocr_result' = RaiseWith("ValueError", "Cloud Vision not enabled")
          /\ UNCHANGED <<texts, engine_calls>>
       \/ /\ use_cloud_vision
          /\ ocr_result' = RaiseWith("FileNotFoundError", "No such file or directory")
          /\ UNCHANGED <<texts, engine_calls>>
       \/ /\ use_cloud_vision
          /\ \E anns \in Responses(MaxAnnotations) :
                /\ texts' = anns
                /\ ocr_result' = CloudVisionResult(anns)
          /\ engine_calls' = engine_calls + 1
    /\ UNCHANGED <<gate_call, gate_prev, use_cloud_vision>>
    /\ UNCHANGED <<time_vars, extract_vars, conf_vars, call_vars, handler_vars>>

(***************************************************************************)
(* The Lambda handler of the OCR step                                      *)
(***************************************************************************)
\* d.get(k, default) and d.get(k) of a dictionary
get(d, k, default) == IF k \in DOMAIN d THEN d[k] ELSE default

\* the dataclass ProcessingResult with its defaults, as asdict gives it
ProcessingResult(document_id, status, ocr, conf, route, error_message) ==
    [document_id |-> document_id, status |-> status, ocr_result |-> ocr,
     confidence |-> conf, route |-> route, error_message |-> error_message]
DefaultConfidence == Zero
DefaultRoute == "validation"

\* create_error_result: status 'failed' and the message, every other field at its default
create_error_result(document_id, error_message) ==
    ProcessingResult(document_id, "failed", None, DefaultConfidence, DefaultRoute,
                     error_message)

\* the classes of the exceptions the steps raise, each with its base class
Bases ==
    [KeyError |-> "LookupError", IndexError |-> "LookupError",
     LookupError |-> "Exception", ClientError |-> "Exception",
     ValueError |-> "Exception", AttributeError |-> "Exception",
     EndpointConnectionError |-> "Exception", DefaultCredentialsError |-> "Exception",
     Exception |-> "BaseException"]
RECURSIVE issubclass(_, _)
issubclass(c, base) == c = base \/ (c \in DOMAIN Bases /\ issubclass(Bases[c], base))

\* str(e)
str(e) == IF "message" \in DOMAIN e THEN e.message ELSE "list index out of range"

\* botocore's ClientError: its response carries the parsed Error with Code and Message
ClientError(code, message, operation) ==
    [kind |-> "raise", error |-> "ClientError",
     message |-> operation,
     response |-> [Error |-> [Code |-> code, Message |-> message]]]

NoException == [kind |-> "none"]
NoLocals == [bound |-> {}]
NoEvent == [invoked |-> FALSE]
NotReturned == [status |-> "none"]

HandlerInit ==
    /\ event = NoEvent
    /\ handler_pc = "idle"
    /\ steps = <<>>
    /\ emitted = <<>>
    /\ handler_locals = NoLocals
    /\ exc = NoException
    /\ handler_result = NotReturned

\* the events of an invocation: any of the three fields may be absent, and s3Key may
\* be null
EventKeys == {"documentId", "s3Key", "userId"}
EventValues ==
    [documentId |-> {Chars("doc-1")},
     s3Key |-> {Chars("up/doc-1.png"), None},
     userId |-> {Chars("u-1")}]
Events ==
    {e \in UNION {[K -> UNION Range(EventValues)] : K \in SUBSET EventKeys} :
        \A k \in DOMAIN e : e[k] \in EventValues[k]}

\* what the calls of the AWS clients and of the Vision client raise when they fail
S3Failures ==
    {ClientError("404", "Not Found", "HeadObject"),
     RaiseWith("EndpointConnectionError", "Could not connect to the endpoint URL")}
PutObjectFailures ==
    {ClientError("AccessDenied", "Access Denied", "PutObject"),
     RaiseWith("EndpointConnectionError", "Could not connect to the endpoint URL")}
PutEventsFailures ==
    {ClientError("ThrottlingException", "Rate exceeded", "PutEvents"),
     RaiseWith("EndpointConnectionError", "Could not connect to the endpoint URL")}

\* the exception e leaves the try block
HandlerRaise(e) ==
    /\ exc' = e
    /\ handler_pc' = "except"
    /\ UNCHANGED <<steps, emitted, handler_locals>>

\* one more local is bound
Bound(name, value) == (name :> value) @@ handler_locals

\* the step named step has completed
Completed(step, next) ==
    /\ steps' = Append(steps, step)
    /\ handler_pc' = next
    /\ UNCHANGED exc

\* the except clauses with no except Exception clause
handler_except_without_last_clause(ev, e) ==
    IF issubclass(e.error, "KeyError")
    THEN Return(create_error_result(get(ev, "documentId", Chars("unknown")),
                                    <<"Missing required field: ", str(e)>>))
    ELSE IF issubclass(e.error, "ClientError")
    THEN Return(create_error_result(get(ev, "documentId", Chars("unknown")),
                                    <<"S3 error: ", e.response.Error.Message>>))
    ELSE e

\* the except clauses of handler, the first that matches: what the handler returns
\* for the exception e, or e itself when no clause matches
handler_except(ev, e) ==
    IF issubclass(e.error, "KeyError")
    THEN Return(create_error_result(get(ev, "documentId", Chars("unknown")),
                                    <<"Missing required field: ", str(e)>>))
    ELSE IF issubclass(e.error, "ClientError")
    THEN Return(create_error_result(get(ev, "documentId", Chars("unknown")),
                                    <<"S3 error: ", e.response.Error.Message>>))
    ELSE IF issubclass(e.error, "Exception")
    THEN Return(create_error_result(get(ev, "documentId", Chars("unknown")),
                                    <<"Processing failed: ", str(e)>>))
    ELSE e

\* handler(event, context) is invoked
HandlerInvoke ==
    /\ handler_pc = "idle"
    /\ \E e \in Events : event' = e
    /\ handler_pc' = "params"
    /\ UNCHANGED <<steps, emitted, handler_locals, exc, handler_result>>
    /\ UNCHANGED <<gate_vars, time_vars, extract_vars, conf_vars, call_vars, vision_vars>>

\* document_id = event['documentId']; s3_key = event['s3Key'];
\* user_id = event.get('userId')
HandlerParameters ==
    /\ handler_pc = "params"
    /\ IF "documentId" \notin DOMAIN event
       THEN HandlerRaise(RaiseWith("KeyError", "'documentId'"))
       ELSE IF "s3Key" \notin DOMAIN event
       THEN HandlerRaise(RaiseWith("KeyError", "'s3Key'"))
       ELSE /\ handler_locals' = [document_id |-> event["documentId"],
                                  s3_key |-> event["s3Key"],
                                  user_id |-> get(event, "userId", None)]
            /\ handler_pc' = "download"
            /\ UNCHANGED <<steps, emitted, exc>>
    /\ UNCHANGED <<event, handler_result>>
    /\ UNCHANGED <<gate_vars, time_vars, extract_vars, conf_vars, call_vars, vision_vars>>

\* local_path = download_from_s3(s3_key): the file name after the last '/', then
\* s3_client.download_file
HandlerDownload ==
    /\ handler_pc = "download"
    /\ \/ /\ handler_locals.s3_key = None
          /\ HandlerRaise(RaiseWith("AttributeError",
                                    "'NoneType' object has no attribute 'split'"))
       \/ /\ handler_locals.s3_key # None
          /\ \E e \in S3Failures : HandlerRaise(e)
       \/ /\ handler_locals.s3_key # None
          /\ \E parts \in {split(handler_locals.s3_key, "/")} :
                handler_locals' = Bound("local_path", Chars("/tmp/") \o parts[Len(parts)])
          /\ Completed("download", "construct")
          /\ UNCHANGED emitted
    /\ UNCHANGED <<event, handler_result>>
    /\ UNCHANGED <<gate_vars, time_vars, extract_vars, conf_vars, call_vars, vision_vars>>

\* processor = OCRProcessor(use_cloud_vision=USE_CLOUD_VISION): with the flag set the
\* constructor makes a Vision client, which needs credentials
HandlerConstruct ==
    /\ handler_pc = "construct"
    /\ \/ HandlerRaise(RaiseWith("DefaultCredentialsError",
                                 "Could not automatically determine credentials"))
       \/ /\ \E flag \in BOOLEAN :
                handler_locals' = Bound("processor", [use_cloud_vision |-> flag])
          /\ handler_pc' = "ocr"
          /\ UNCHANGED <<steps, emitted, exc>>
    /\ UNCHANGED <<event, handler_result>>
    /\ UNCHANGED <<gate_vars, time_vars, extract_vars, conf_vars, call_vars, vision_vars>>

\* ocr_result = processor.process_image(local_path): the file is no image, or the
\* engine reads a page from it
HandlerProcessImage ==
    /\ handler_pc = "ocr"
    /\ \/ HandlerRaise(RaiseWith("ValueError", "Could not read image"))
       \/ \E d \in Pages :
            \E r \in {process_image(d)} :
                IF "kind" \in DOMAIN r
                THEN HandlerRaise(r)
                ELSE /\ handler_locals' = Bound("ocr_result", r)
                     /\ Completed("ocr", "gate")
                     /\ UNCHANGED emitted
    /\ UNCHANGED <<event, handler_result>>
    /\ UNCHANGED <<gate_vars, time_vars, extract_vars, conf_vars, call_vars, vision_vars>>

\* result.words[:n]
Prefix(xs, n) == SubSeq(xs, 1, IF Len(xs) < n THEN Len(xs) ELSE n)

\* the status of a route
StatusOf(route) ==
    IF route = "llm" THEN "needs_llm"
    ELSE IF route = "hitl" THEN "needs_hitl"
    ELSE "completed"

\* decision = processor.calculate_quality_gate_decision(ocr_result), the status of
\* its route, and the ProcessingResult
HandlerDecide ==
    /\ handler_pc = "gate"
    /\ \E decision \in {calculate_quality_gate_decision(handler_locals.ocr_result)} :
       \E status \in {StatusOf(decision.route)} :
            handler_locals' =
                [decision |-> decision, status |-> status,
                 result |-> ProcessingResult(
                                handler_locals.document_id, status,
                                [text |-> handler_locals.ocr_result.text,
                                 confidence |-> handler_locals.ocr_result.confidence,
                                 words |-> Prefix(handler_locals.ocr_result.words, 100),
                                 engine |-> handler_locals.ocr_result.engine],
                                handler_locals.ocr_result.confidence,
                                decision.route, None)] @@ handler_locals
    /\ Completed("gate", "save")
    /\ UNCHANGED <<event, emitted, handler_result>>
    /\ UNCHANGED <<gate_vars, time_vars, extract_vars, conf_vars, call_vars, vision_vars>>

\* save_ocr_result(document_id, user_id, ocr_result): s3_client.put_object
HandlerSave ==
    /\ handler_pc = "save"
    /\ \/ \E e \in PutObjectFailures : HandlerRaise(e)
       \/ /\ Completed("save", "emit")
          /\ UNCHANGED <<emitted, handler_locals>>
    /\ UNCHANGED <<event, handler_result>>
    /\ UNCHANGED <<gate_vars, time_vars, extract_vars, conf_vars, call_vars, vision_vars>>

\* the entry emit_event puts on EventBridge
Entry(detail_type, result) ==
    [Source |-> "custom.learningyogi", DetailType |-> detail_type, Detail |-> result]

\* emit_event('OCR Completed', result): eventbridge_client.put_events
HandlerEmit ==
    /\ handler_pc = "emit"
    /\ \/ \E e \in PutEventsFailures : HandlerRaise(e)
       \/ /\ emitted' = Append(emitted, Entry("OCR Completed", handler_locals.result))
          /\ Completed("emit", "return")
          /\ UNCHANGED handler_locals
    /\ UNCHANGED <<event, handler_result>>
    /\ UNCHANGED <<gate_vars, time_vars, extract_vars, conf_vars, call_vars, vision_vars>>

\* return asdict(result)
HandlerReturn ==
    /\ handler_pc = "return"
    /\ handler_result' = handler_locals.result
    /\ handler_pc' = "returned"
    /\ UNCHANGED <<event, steps, emitted, handler_locals, exc>>
    /\ UNCHANGED <<gate_vars, time_vars, extract_vars, conf_vars, call_vars, vision_vars>>

\* the except clauses: the handler returns an error result, or the exception leaves
\* the handler
HandlerExcept ==
    /\ handler_pc = "except"
    /\ \E r \in {handler_except(event, exc)} :
            IF r.kind = "return"
            THEN /\ handler_result' = r.value
                 /\ handler_pc' = "returned"
            ELSE /\ handler_pc' = "raised"
                 /\ UNCHANGED handler_result
    /\ UNCHANGED <<event, steps, emitted, handler_locals, exc>>
    /\ UNCHANGED <<gate_vars, time_vars, extract_vars, conf_vars, call_vars, vision_vars>>

(***************************************************************************)
(* Properties of the quality gates                                         *)
(***************************************************************************)
Called(call, policy) == call.policy = policy

\* C1: in the three-tier policy every confidence gets exactly one decision: route
\* 'validation' with a 'High confidence' reason iff c >= 0.98, route 'llm' with a
\* 'Medium confidence ... LLM processing required' reason iff 0.80 <= c < 0.98, route
\* 'hitl' with a 'Low confidence ... human review required' reason iff c < 0.80, and
\* the decision carries the confidence it was given.
C1_ThreeTierDecision ==
    Called(gate_call, "three_tier") =>
        LET c == gate_call.arg.confidence
            d == gate_call.decision
        IN  /\ d.route \in {"validation", "llm", "hitl"}
            /\ d.confidence = c
            /\ (d.route = "validation") <=> RatGeq(c, <<98, 100>>)
            /\ (d.route = "llm") <=> (RatGeq(c, <<80, 100>>) /\ RatLt(c, <<98, 100>>))
            /\ (d.route = "hitl") <=> RatLt(c, <<80, 100>>)
            /\ (d.route = "validation") <=> (d.reason[1] = "High confidence")
            /\ (d.route = "llm") <=> (d.reason[1] = "Medium confidence"
                                       /\ d.reason[3] = "LLM processing required")
            /\ (d.route = "hitl") <=> (d.reason[1] = "Low confidence"
                                        /\ d.reason[3] = "human review required")

\* a call at exactly 0.98 routed to validation, after one just below routed to llm
C1_Witness ==
    /\ Called(gate_call, "three_tier") /\ Called(gate_prev, "three_tier")
    /\ gate_call.arg.confidence = <<49, 50>> /\ gate_call.decision.route = "validation"
    /\ gate_prev.arg.confidence = <<9799, 10000>> /\ gate_prev.decision.route = "llm"

Tier(route) == IF route = "validation" THEN 2 ELSE IF route \in {"llm", "ai"} THEN 1 ELSE 0

\* C5: both gates are monotonic: of two calls of the same policy, the one with the
\* larger confidence never gets the lower tier.
C5_GateMonotonic ==
    (gate_prev # NoCall /\ gate_call.policy = gate_prev.policy) =>
        /\ RatLeq(gate_prev.arg.confidence, gate_call.arg.confidence)
            => Tier(gate_prev.decision.route) <= Tier(gate_call.decision.route)
        /\ RatLeq(gate_call.arg.confidence, gate_prev.arg.confidence)
            => Tier(gate_call.decision.route) <= Tier(gate_prev.decision.route)

\* two three-tier calls that climb from the lowest tier to the highest
C5_Witness ==
    /\ Called(gate_call, "three_tier") /\ Called(gate_prev, "three_tier")
    /\ RatLt(gate_prev.arg.confidence, gate_call.arg.confidence)
    /\ gate_prev.decision.route = "hitl" /\ gate_call.decision.route = "validation"

\* C6: in the two-tier policy a confidence of exactly 0.80 routes to 'ai', and only
\* a confidence above 0.80 routes to 'validation'.
C6_ExactThresholdRoutesToAi ==
    Called(gate_call, "two_tier") =>
        /\ gate_call.arg.confidence = <<4, 5>> => gate_call.decision.route = "ai"
        /\ gate_call.decision.route = "validation"
            => RatLt(<<80, 100>>, gate_call.arg.confidence)

(***************************************************************************)
(* Properties of _normalize_time                                           *)
(***************************************************************************)
\* the hour and the minute the conversion rule gives for time_tuple
ExpectedMinute == IF time_tuple[2] \in Absent THEN 0 ELSE int(time_tuple[2])
ExpectedHour ==
    LET h == int(time_tuple[1])
        x == time_tuple[3]
        pm == x \notin Absent /\ x[1] \in {"p", "P"}
        am == x \notin Absent /\ x[1] \in {"a", "A"}
    IN  IF pm /\ h # 12 THEN h + 12 ELSE IF am /\ h = 12 THEN 0 ELSE h

\* v is two digits, a colon, two digits
IsHHMM(v) ==
    /\ Len(v) = 5
    /\ v[3] = ":"
    /\ \A i \in {1, 2, 4, 5} : IsDigit(v[i])

\* C7: for every triple (hour of 1-2 digits, minute of 2 digits or absent, am/pm in
\* any case or absent) _normalize_time returns the 5-character string HH:MM whose
\* 2-digit fields are the hour after the meridiem rule (pm and not 12: +12, am and
\* 12: 0, otherwise unchanged) and the given minute, 0 when absent.
C7_NormalizeTimeReturnsHHMM ==
    time_tuple # Pending =>
        /\ time_out.kind = "return"
        /\ IsHHMM(time_out.value)
        /\ int(SubSeq(time_out.value, 1, 2)) = ExpectedHour
        /\ int(SubSeq(time_out.value, 4, 5)) = ExpectedMinute

\* C9: whenever the hour after the meridiem rule is outside 0..23 or the minute is
\* outside 0..59, _normalize_time fails with InvalidTime and returns no string.
C9_OutOfRangeRaisesInvalidTime ==
    (time_tuple # Pending /\ (ExpectedHour \notin 0..23 \/ ExpectedMinute \notin 0..59)) =>
        time_out = [kind |-> "raise", error |-> "InvalidTime"]

(***************************************************************************)
(* Properties of extract_timeblocks                                        *)
(***************************************************************************)
\* v is HH:MM with the hour in 00..23 and the minute in 00..59
IsValidTime(v) ==
    /\ IsHHMM(v)
    /\ int(SubSeq(v, 1, 2)) <= 23
    /\ int(SubSeq(v, 4, 5)) <= 59

\* C8: every non-null startTime and endTime of the returned list is a 5-character
\* HH:MM string with the hour in 00..23 and the minute in 00..59.
C8_BlockTimesAreValid ==
    pc = "done" =>
        \A k \in DOMAIN timeblocks :
            /\ timeblocks[k].startTime # None => IsValidTime(timeblocks[k].startTime)
            /\ timeblocks[k].endTime # None => IsValidTime(timeblocks[k].endTime)

\* The lines of the text as given, each stripped, and for each line the position of
\* the nearest day-header line at or before it (0 when there is none).  A day header
\* is a line with a weekday name as a whole word, in any letter case.
StrippedLines == Bind(split(text, "\n"), LAMBDA ls : [i \in DOMAIN ls |-> strip(ls[i])])
LastHeader(ls) ==
    LET last[i \in 0..Len(ls)] ==
            IF i = 0 THEN 0
            ELSE IF day_match(ls[i]) # None THEN i ELSE last[i - 1]
    IN  last
\* line i is an event line: not blank, no weekday name, a time token (any digit
\* starts one), a non-empty residual name, and a day header before it
IsEventLine(ls, last, i) ==
    /\ ls[i] # <<>>
    /\ last[i] # i
    /\ \E j \in DOMAIN ls[i] : IsDigit(ls[i][j])
    /\ EventName(ls[i]) # <<>>
    /\ last[i] # 0
DaysOf(blocks) == [k \in DOMAIN blocks |-> blocks[k].day]

\* C10: the returned list has exactly one block per event line, in the order of the
\* lines in the text; each block carries the residual name of its line and the
\* capitalized weekday of the nearest preceding day header.  The example text gives
\* exactly 3 blocks tagged Monday, Monday, Tuesday.
C10_OneBlockPerEventLine ==
    pc = "done" =>
        /\ \E ls \in {StrippedLines} : \E last \in {LastHeader(ls)} :
            \E ev \in {SelectSeq([i \in DOMAIN ls |-> i],
                                 LAMBDA i : IsEventLine(ls, last, i))} :
                /\ Len(timeblocks) = Len(ev)
                /\ \A k \in DOMAIN ev :
                    /\ timeblocks[k].name = EventName(ls[ev[k]])
                    /\ \E d \in DOMAIN DayNames :
                        /\ lower(day_match(ls[last[ev[k]]])) = DayNames[d]
                        /\ timeblocks[k].day
                             = <<UpperChar(DayNames[d][1])>> \o Tail(DayNames[d])
        /\ text \in {ExampleText, IndentedExampleText} =>
            DaysOf(timeblocks) = <<Chars("Monday"), Chars("Monday"), Chars("Tuesday")>>

\* the example text has been processed into its three blocks, the day changing
\* between the second and the third
C10_Witness ==
    /\ pc = "done"
    /\ text = ExampleText
    /\ Len(timeblocks) = 3
    /\ timeblocks[2].day = Chars("Monday") /\ timeblocks[2].name = Chars("- English")
    /\ timeblocks[3].day = Chars("Tuesday")

(***************************************************************************)
(* Properties of extract_timeblocks, line by line                          *)
(***************************************************************************)
\* the step of the loop that handles the line at line_no
LineStep == pc = "loop" /\ line_no <= Len(lines) /\ line_no' = line_no + 1

\* the positions and names at which a weekday name stands in line as a whole word,
\* in any letter case
WeekdayWordHits(line) ==
    {h \in (DOMAIN line) \X (DOMAIN DayNames) : DayMatchesAt(line, h[1], DayNames[h[2]])}
\* a lower-case weekday name in title case
TitleCase(name) == <<UpperChar(name[1])>> \o Tail(name)

\* C11: a line that contains a weekday name as a whole word (any letter case) only
\* sets current_day to that name in title case and never produces a timeblock, even
\* with time tokens and a label on the same line; a line without such a word, one
\* where a weekday name is part of a longer word included, leaves current_day alone.
C11_DayHeaderOnlySetsDay ==
    [][LineStep =>
        \E hits \in {WeekdayWordHits(Line)} :
            /\ hits # {} =>
                /\ timeblocks' = timeblocks
                /\ \E h \in hits :
                    /\ \A g \in hits : h[1] <= g[1]
                    /\ current_day' = TitleCase(DayNames[h[2]])
            /\ hits = {} => current_day' = current_day]_vars

\* a header with a time and a label made no block, and the following line with
\* "Mondays" in it became a block of that header's day
C11_Witness ==
    /\ pc = "done"
    /\ text = JoinLines(<<Chars("FRIDAY 9:00 Maths"), Chars("Mondays 9:00 Club")>>)
    /\ current_day = Chars("Friday")
    /\ Len(timeblocks) = 1
    /\ timeblocks[1].day = Chars("Friday") /\ timeblocks[1].name = Chars("Mondays Club")

\* no line before the one at line_no has a weekday name as a whole word
BeforeAnyHeader == \A j \in 1..(line_no - 1) : WeekdayWordHits(strip(lines[j])) = {}
HasTimeToken(line) == \E j \in DOMAIN line : IsDigit(line[j])
\* line is one of: blank, without a time token, with time tokens before any day
\* header, with an empty residual after the time tokens are removed
IsSkippedKind(line) ==
    \/ line = <<>>
    \/ ~HasTimeToken(line)
    \/ HasTimeToken(line) /\ BeforeAnyHeader
    \/ EventName(line) = <<>>
\* the step emits nothing, fails nowhere and leaves current_day and the blocks alone
StepChangesNothing == timeblocks' = timeblocks /\ current_day' = current_day /\ pc' = "loop"

\* C12, as stated: a line with time tokens before any day header, a line with an empty
\* residual, a line with no time token and a blank line each emit no timeblock, raise
\* no error and leave current_day and the blocks emitted so far unchanged.
C12_SkippedLinesChangeNothing ==
    [][(LineStep /\ IsSkippedKind(Line)) => StepChangesNothing]_vars

\* C12, amended: the same for every such line that has no weekday name as a whole
\* word; a day header, with or without time tokens, does set current_day.
C12_SkippedNonHeaderLinesChangeNothing ==
    [][(LineStep /\ IsSkippedKind(Line) /\ WeekdayWordHits(Line) = {})
        => StepChangesNothing]_vars

\* an event line before any header, then a header, then a time with no label: no
\* block was emitted and the header's day is still the current one
C12_Witness ==
    /\ pc = "done"
    /\ text = JoinLines(<<Chars("9:00 - 10:00 Maths"), Chars("  tuesday "), Chars("9:00")>>)
    /\ timeblocks = <<>>
    /\ current_day = Chars("Tuesday")

\* the step appends a block; NewBlock is that block
EmitStep == LineStep /\ Len(timeblocks') = Len(timeblocks) + 1
NewBlock == timeblocks'[Len(timeblocks')]

IsLetter(c) == IsLower(c) \/ IsUpper(c)
\* the words of s: its maximal runs of letters
LetterRuns(s) ==
    {SubSeq(s, r[1], r[2]) :
        r \in {q \in (DOMAIN s) \X (DOMAIN s) :
                /\ q[1] <= q[2]
                /\ \A k \in q[1]..q[2] : IsLetter(s[k])
                /\ q[1] = 1 \/ ~IsLetter(s[q[1] - 1])
                /\ q[2] = Len(s) \/ ~IsLetter(s[q[2] + 1])}}
\* the words of a line that belong to its label: all but a meridiem
LabelWords(line) == {w \in LetterRuns(line) : lower(w) \notin {<<"a", "m">>, <<"p", "m">>}}

\* C13: the name of an emitted block is a verbatim copy of the label of its line: only
\* time substrings are removed, so every word of the label, one that begins with
\* 'am' or 'pm' included, is a word of the name in its original spelling and case.
C13_NameKeepsLabelVerbatim ==
    [][EmitStep => \A w \in LabelWords(Line) : w \in LetterRuns(NewBlock.name)]_vars

\* line is '<start> - <end> <Label>': times, blanks and one hyphen, then one word
IsRangeLine(line) ==
    \E k \in DOMAIN line :
        /\ \A j \in (k + 1)..Len(line) : IsLetter(line[j])
        /\ k < Len(line)
        /\ line[k] = " "
        /\ \A j \in 1..k : IsDigit(line[j]) \/ line[j] \in {":", ".", " ", "-"}
        /\ \E j \in 2..(k - 2) : SubSeq(line, j - 1, j + 1) = <<" ", "-", " ">>
        /\ IsDigit(line[1])
\* the hour and minute of a token without meridiem, as HH:MM
As24Hour(groups) ==
    Bind(int(groups[1]), LAMBDA h :
    Bind(IF groups[2] = <<>> THEN 0 ELSE int(groups[2]), LAMBDA m :
        <<DigitChars[(h \div 10) + 1], DigitChars[(h % 10) + 1], ":",
          DigitChars[(m \div 10) + 1], DigitChars[(m % 10) + 1]>>))

\* C14: a line '<start> - <end> <Label>' under a day header gives a block whose name
\* is exactly the label, with no separator or time residue, and whose startTime is
\* the normalized start.
C14_RangeLineNameIsLabel ==
    [][(LineStep /\ IsRangeLine(Line) /\ ~BeforeAnyHeader) =>
        /\ EmitStep
        /\ LetterRuns(Line) = {NewBlock.name}
        /\ NewBlock.startTime = As24Hour(TimeMatches(Line)[1].groups)]_vars

\* C15: startTime of an emitted block is the normalization of the first time token of
\* its line and endTime that of the second; endTime is None exactly when the line has
\* a single token; later tokens are ignored; a token without meridiem is 24-hour time.
C15_StartAndEndFromFirstTwoTokens ==
    [][EmitStep =>
        \E toks \in {TimeMatches(Line)} :
            /\ Len(toks) >= 1
            /\ NewBlock.startTime = _normalize_time(toks[1].groups)
            /\ toks[1].groups[3] = <<>> => NewBlock.startTime = As24Hour(toks[1].groups)
            /\ (Len(toks) = 1) <=> (NewBlock.endTime = None)
            /\ Len(toks) >= 2 =>
                /\ NewBlock.endTime = _normalize_time(toks[2].groups)
                /\ toks[2].groups[3] = <<>> => NewBlock.endTime = As24Hour(toks[2].groups)]_vars

\* a line with three tokens gave the first two as start and end, a line with one
\* token gave it as start and no end
C15_Witness ==
    /\ pc = "done"
    /\ text = JoinLines(<<Chars("  tuesday "), Chars("12am 1.15 PM 3 Music"),
                          Chars("25:99 Art")>>)
    /\ Len(timeblocks) = 2
    /\ timeblocks[1].startTime = Chars("00:00") /\ timeblocks[1].endTime = Chars("13:15")
    /\ timeblocks[2].startTime = Chars("25:99") /\ timeblocks[2].endTime = None

(***************************************************************************)
(* Properties of _calculate_confidence                                     *)
(***************************************************************************)
\* C3: for every raw engine output the aggregated confidence of both implementations
\* lies in [0.0, 1.0].
C3_ConfidenceInUnitInterval ==
    confidence # NoConfidence =>
        /\ RatLeq(<<0, 1>>, confidence.value)
        /\ RatLeq(confidence.value, <<1, 1>>)

\* eleven entries, one of them the sentinel -1, every word in the vocabulary and five
\* times in the text: the largest confidence the weights allow, 0.96
C3_Witness ==
    /\ confidence # NoConfidence
    /\ -1 \in Range(data.conf) /\ 100 \in Range(data.conf)
    /\ Len(data.conf) > 10
    /\ confidence.value = <<24, 25>>

\* the four factors of the implementation that was called, for data and full_text
Factors ==
    IF confidence.by = "OCRProcessor"
    THEN <<mean_char_confidence(data), _calculate_dictionary_match(NonBlankWords(data)),
           _detect_layout_consistency(data), _detect_time_patterns(full_text)>>
    ELSE <<mean_char_confidence(data),
           OCRService_calculate_dictionary_match(NonBlankWords(data)),
           OCRService_detect_layout_consistency(data),
           OCRService_detect_time_patterns(full_text)>>

\* C4: the aggregated confidence is min(1.0, 0.4*CharConfidence + 0.2*DictionaryMatch
\* + 0.2*LayoutConsistency + 0.2*TimePatternDensity), each factor with its own weight
\* and nothing else added.
C4_WeightedFormula ==
    confidence # NoConfidence =>
        \E f \in {Factors} :
            \E sum \in {<<4 * f[1][1] * f[2][2] * f[3][2] * f[4][2]
                          + 2 * f[2][1] * f[1][2] * f[3][2] * f[4][2]
                          + 2 * f[3][1] * f[1][2] * f[2][2] * f[4][2]
                          + 2 * f[4][1] * f[1][2] * f[2][2] * f[3][2],
                          10 * f[1][2] * f[2][2] * f[3][2] * f[4][2]>>} :
                confidence.value = IF sum[1] <= sum[2] THEN Rat(sum[1], sum[2]) ELSE <<1, 1>>

\* a call whose four factors are all different: 0.725, 0.5, 0.5 and 0.8 give 0.65
C4_Witness ==
    /\ confidence # NoConfidence
    /\ confidence.by = "OCRProcessor"
    /\ data = DataOf(<<<<Chars("Monday"), 45>>, <<Chars("abc"), 100>>>>)
    /\ full_text = Chars("9:00 10.30 11am")
    /\ confidence.value = <<13, 20>>

(***************************************************************************)
(* Properties of the confidence signals                                    *)
(***************************************************************************)
\* the number of raw confidences that are detections, and their sum
DetectionCount == Cardinality({i \in DOMAIN data.conf : data.conf[i] > 0})
DetectionSum ==
    LET upto[k \in 0..Len(data.conf)] ==
            IF k = 0 THEN 0
            ELSE upto[k - 1] + (IF data.conf[k] > 0 THEN data.conf[k] ELSE 0)
    IN  upto[Len(data.conf)]

\* C19: the character confidence is the arithmetic mean of conf/100 over exactly the
\* raw entries with conf > 0: entries of -1 and 0 add to neither the sum nor the
\* count, the result is 0 when there is no such entry, and it lies in [0, 1].
C19_CharConfidenceIsMeanOfDetections ==
    confidence # NoConfidence =>
        \E mean \in {confidence.mean_char_confidence} : \E n \in {DetectionCount} :
            /\ n = 0 => mean = <<0, 1>>
            /\ n > 0 => mean[1] * 100 * n = DetectionSum * mean[2]
            /\ RatLeq(<<0, 1>>, mean) /\ RatLeq(mean, <<1, 1>>)
            /\ (data # NoData /\ \A f \in DOMAIN data : Len(data[f]) = Len(data.text))
                => Len(ocr_result.words) = n

\* three raw entries, a sentinel, a 0 and one detection, which is the only word: the
\* mean is that of the detection alone, 0.95
C19_Witness ==
    /\ confidence # NoConfidence
    /\ data.conf = <<-1, 0, 95>>
    /\ Len(ocr_result.words) = 1
    /\ confidence.mean_char_confidence = <<19, 20>>

\* the vocabulary as stated: the 7 weekday names and 20 timetable terms
StatedVocabulary ==
    {Chars("monday"), Chars("tuesday"), Chars("wednesday"), Chars("thursday"),
     Chars("friday"), Chars("saturday"), Chars("sunday"),
     Chars("maths"), Chars("english"), Chars("science"), Chars("history"),
     Chars("geography"), Chars("art"), Chars("music"), Chars("pe"), Chars("physical"),
     Chars("education"), Chars("assembly"), Chars("registration"), Chars("break"),
     Chars("lunch"), Chars("recess"), Chars("reading"), Chars("writing"),
     Chars("phonics"), Chars("spelling"), Chars("class")}
\* the indices of the non-empty word strings of data, and of those in the vocabulary
WordIndices == {i \in DOMAIN data.text : \E j \in DOMAIN data.text[i] : ~IsSpace(data.text[i][j])}
VocabularyIndices == {i \in WordIndices : lower(data.text[i]) \in StatedVocabulary}

\* C20: in every implementation the dictionary match is the number of words whose
\* case-folded form is in the stated vocabulary (the weekday names, the 19 subject and
\* activity terms and 'class') over the number of words, and 0 for no words.
C20_DictionaryMatchIsVocabularyShare ==
    confidence # NoConfidence =>
        \E share \in {confidence.dict_match} :
            /\ WordIndices = {} => share = <<0, 1>>
            /\ WordIndices # {} =>
                share[1] * Cardinality(WordIndices) = Cardinality(VocabularyIndices) * share[2]

\* the layout signal as stated, for a number of recognized words
StatedLayoutScore(n) ==
    IF n = 0 THEN <<0, 1>> ELSE IF n > 10 THEN <<4, 5>> ELSE <<1, 2>>

\* C21: the layout signal depends only on the number of recognized words, the raw
\* entries with a confidence above 0 that the word extractor keeps: 0.0 for none, 0.5
\* for 1 to 10, 0.8 for more than 10; non-detections do not count.
C21_LayoutCountsRecognizedWords ==
    confidence # NoConfidence =>
        confidence.layout_score = StatedLayoutScore(DetectionCount)

\* the score as stated, for a number of matches
StatedTimeScore(n) ==
    IF n >= 5 THEN <<1, 1>>
    ELSE IF n >= 3 THEN <<4, 5>>
    ELSE IF n >= 1 THEN <<3, 5>>
    ELSE <<0, 1>>

\* C22: the time-pattern signal is 1.0 for 5 or more matches in the full text, 0.8 for
\* 3 or 4, 0.6 for 1 or 2 and 0.0 for none; it never decreases as the number of
\* matches grows; a text with no digit scores 0.0; and the letter case of a meridiem
\* makes no difference: the text scores what its lower-case form scores.
C22_TimeScoreFromMatchCount ==
    confidence # NoConfidence =>
        \E n \in {CountTimePatterns(full_text)} :
            /\ confidence.pattern_score = StatedTimeScore(n)
            /\ \A m \in 0..n : RatLeq(TimePatternScore(m), TimePatternScore(n))
            /\ (\A j \in DOMAIN full_text : ~IsDigit(full_text[j]))
                => confidence.pattern_score = <<0, 1>>
            /\ confidence.pattern_score
                 = StatedTimeScore(CountTimePatterns(lower(full_text)))

\* the routes the three-tier gate and the two-tier gate give to the confidences that
\* _calculate_confidence returns for the raw outputs ds and the texts ss
ThreeTierRoutes(ds, ss) ==
    {calculate_quality_gate_decision(GateResult(_calculate_confidence(d, s))).route :
        d \in ds, s \in ss}
TwoTierRoutes(ds, ss) ==
    {calculate_quality_gate(GateResult(OCRService_calculate_confidence(d, s))).route :
        d \in ds, s \in ss}

\* C27: every route of the configured policy is reachable through scoring: among the
\* raw engine outputs a call can be given there are some whose aggregated confidence
\* the three-tier gate routes to 'validation', some to 'llm' and some to 'hitl', and
\* some the two-tier gate routes to 'validation' and some to 'ai'.
C27_EveryRouteReachable ==
    confidence = NoConfidence =>
        /\ ThreeTierRoutes(EngineData(MaxWords), TextSamples) = {"validation", "llm", "hitl"}
        /\ TwoTierRoutes(EngineData(MaxWords), TextSamples) = {"validation", "ai"}

(***************************************************************************)
(* Properties of _extract_words and process_image                          *)
(***************************************************************************)
\* the six raw lists are parallel: all of one length
WellFormed == data # NoData /\ \A f \in DOMAIN data : Len(data[f]) = Len(data.text)

\* the indices of the raw entries whose confidence is a detection
KeptIndices == {i \in DOMAIN data.text : data.conf[i] > 0}
\* the k-th of them in input order
KeptIndex(k) == CHOOSE i \in KeptIndices : Cardinality({j \in KeptIndices : j <= i}) = k

\* C16: _extract_words returns one word for index i iff the raw confidence at i is
\* strictly greater than 0; each word carries text[i], conf[i]/100 (so in (0,1]) and
\* the left, top, width and height of the same index; the output keeps the input
\* order.  For conf = [95, -1, 98] it returns exactly 2 words.  The six lists are
\* parallel here; lists of different lengths are the subject of C17.
C16_WordsAreTheDetections ==
    WellFormed =>
        /\ Processed
        /\ Len(ocr_result.words) = Cardinality(KeptIndices)
        /\ \A k \in DOMAIN ocr_result.words :
            \E i \in {KeptIndex(k)} : \E w \in {ocr_result.words[k]} :
                /\ w.text = data.text[i]
                /\ w.confidence[1] * 100 = data.conf[i] * w.confidence[2]
                /\ RatLt(<<0, 1>>, w.confidence) /\ RatLeq(w.confidence, <<1, 1>>)
                /\ w.left = data.left[i] /\ w.top = data.top[i]
                /\ w.width = data.width[i] /\ w.height = data.height[i]
        /\ data.conf = <<95, -1, 98>> => Len(ocr_result.words) = 2

\* the raw confidences 95, -1, 98 gave the first and the third box as words
C16_Witness ==
    /\ Processed /\ WellFormed
    /\ data.conf = <<95, -1, 98>>
    /\ Len(ocr_result.words) = 2
    /\ ocr_result.words[1].text = Chars("Monday") /\ ocr_result.words[1].left = 10
    /\ ocr_result.words[2].text = Chars("Maths") /\ ocr_result.words[2].left = 50
    /\ ocr_result.words[2].confidence = <<49, 50>>

\* C17: whenever the six raw lists do not all have the same length, word extraction
\* fails with MalformedInput and no word list is returned.
C17_MismatchedLengthsAreMalformedInput ==
    (data # NoData /\ ~WellFormed) =>
        ocr_result = [kind |-> "raise", error |-> "MalformedInput"]

\* C18: whenever no word is recognized, processing raises no error, the aggregated
\* confidence is exactly 0.0 and the gate routes to the lowest tier of its policy.
C18_NoWordsGiveZeroConfidence ==
    (WellFormed /\ \A i \in DOMAIN data.text : data.conf[i] <= 0) =>
        /\ "engine" \in DOMAIN ocr_result
        /\ ocr_result.words = <<>>
        /\ ocr_result.confidence = <<0, 1>>
        /\ gate_call # NoCall =>
            gate_call.decision.route
                = IF gate_call.policy = "three_tier" THEN "hitl" ELSE "ai"

(***************************************************************************)
(* Properties of a sequence of calls on one instance                       *)
(***************************************************************************)
\* C23: scoring, gating and extraction keep no state across calls on one instance:
\* two calls of one method with identical arguments return identical results whatever
\* calls ran in between, and every call of extract_timeblocks starts with no day,
\* whatever day the call before it ended with.
C23_CallsKeepNoState ==
    /\ \A i, j \in DOMAIN history :
        (history[i].fn = history[j].fn /\ history[i].args = history[j].args)
            => history[i].result = history[j].result
    /\ (pc = "loop" /\ line_no = 1) => current_day = None

\* '9:00 Maths' gave no block, 'Monday\n9:00 Maths' gave a Monday block, and
\* '9:00 Maths' again gave no block
C23_Witness ==
    /\ Len(history) = 3
    /\ history[1] = Call("extract_timeblocks", <<Chars("9:00 Maths")>>, <<>>)
    /\ history[2].fn = "extract_timeblocks"
    /\ Len(history[2].result) = 1 /\ history[2].result[1].day = Chars("Monday")
    /\ history[3] = history[1]
    /\ current_day = None

(***************************************************************************)
(* Properties of the pipeline                                              *)
(***************************************************************************)
\* what process_image returns for the engine output in data
ResultOfData ==
    IF confidence.by = "OCRService" THEN OCRService_process_image(data)
    ELSE process_image(data)
\* what the gate of that implementation decides for a result
DecisionFor(result) ==
    IF confidence.by = "OCRService" THEN calculate_quality_gate(result)
    ELSE calculate_quality_gate_decision(result)
\* each branch has the result it has when it runs alone on the output of process_image
BranchResults ==
    Processed =>
        \E result \in {ResultOfData} :
            /\ ocr_result = result
            /\ gate_call # NoCall =>
                /\ gate_call.arg = result
                /\ gate_call.decision = DecisionFor(result)
            /\ pc # "idle" => text = result.text
            /\ pc = "done" => timeblocks = extract_timeblocks(result.text)

HasNewline(s) == \E j \in DOMAIN s : s[j] = "\n"

\* C28: for a text without a newline character extract_timeblocks returns an empty
\* list; so it does for the text of an OCRResult of process_image, the recognized
\* words joined by single spaces, whenever no word contains a newline.
C28_SingleLineTextGivesNoBlocks ==
    pc = "done" =>
        /\ ~HasNewline(text) => timeblocks = <<>>
        /\ (/\ Processed
            /\ text = ocr_result.text
            /\ \A k \in DOMAIN ocr_result.words : ~HasNewline(ocr_result.words[k].text))
            => timeblocks = <<>>

\* the eleven words of a timetable row, a day and five times among them, were joined
\* into one line, which set the day and gave no block
C28_Witness ==
    /\ pc = "done"
    /\ Processed
    /\ Len(ocr_result.words) = 11
    /\ text = ocr_result.text
    /\ text = Chars("Monday 9:00 Maths 10:00 English 11:00 Science 12:00 Lunch 1:00pm Art")
    /\ current_day = Chars("Monday")
    /\ timeblocks = <<>>

(***************************************************************************)
(* Properties of process_with_cloud_vision                                 *)
(***************************************************************************)
\* C25: a processor built without cloud vision raises ValueError('Cloud Vision not
\* enabled') before the engine is touched; for a response without annotations the
\* result has text '', confidence 0.0 and no words; otherwise its text is the
\* description of the first annotation and its words are the remaining annotations
\* in order, one fewer than the annotations; every returned result carries the engine
\* tag 'google_cloud_vision' and a confidence in [0, 1].
C25_CloudVisionResult ==
    /\ (ocr_result # NoResult /\ ~use_cloud_vision) =>
            /\ ocr_result = [kind |-> "raise", error |-> "ValueError",
                             message |-> "Cloud Vision not enabled"]
            /\ engine_calls = 0 /\ texts = NoResponse
    /\ texts # NoResponse =>
            /\ engine_calls = 1
            /\ "engine" \in DOMAIN ocr_result
            /\ ocr_result.engine = "google_cloud_vision"
            /\ RatLeq(<<0, 1>>, ocr_result.confidence)
            /\ RatLeq(ocr_result.confidence, <<1, 1>>)
            /\ texts = <<>> =>
                    /\ ocr_result.text = <<>>
                    /\ ocr_result.confidence = <<0, 1>>
                    /\ ocr_result.words = <<>>
            /\ texts # <<>> =>
                    /\ ocr_result.text = texts[1].description
                    /\ Len(ocr_result.words) = Len(texts) - 1
                    /\ \A k \in DOMAIN ocr_result.words :
                            ocr_result.words[k].text = texts[k + 1].description

\* the response of the cloud-vision test: the full text and two words
C25_Witness ==
    /\ use_cloud_vision
    /\ texts # NoResponse /\ Len(texts) = 3
    /\ texts[1].description = Chars("Monday 9:00")
    /\ ocr_result.text = Chars("Monday 9:00")
    /\ Len(ocr_result.words) = 2
    /\ ocr_result.words[1] = [text |-> Chars("Monday"), confidence |-> <<24, 25>>]
    /\ ocr_result.words[2] = [text |-> Chars("9:00"), confidence |-> <<47, 50>>]
    /\ ocr_result.confidence = <<19, 20>>

\* C26: a word annotation without a confidence field gets the default confidence
\* 0.9, so a result whose word annotations all lack a confidence has the overall
\* confidence 0.9.
C26_MissingConfidenceDefaultsTo09 ==
    (texts # NoResponse /\ Len(texts) >= 2) =>
        /\ \A k \in DOMAIN ocr_result.words :
                "confidence" \notin DOMAIN texts[k + 1]
                    => ocr_result.words[k].confidence = <<9, 10>>
        /\ (\A k \in 2..Len(texts) : "confidence" \notin DOMAIN texts[k])
                => ocr_result.confidence = <<9, 10>>

(***************************************************************************)
(* Properties of the Lambda handler                                        *)
(***************************************************************************)
HandlerSteps == <<"download", "ocr", "gate", "save", "emit">>
Raised == exc # NoException

\* the steps completed so far are the first ones of the order, the event is emitted
\* at most once and after the save, nothing propagates, and after an exception the
\* handler returns a failed result with a message
HandlerOrder ==
    /\ Len(steps) <= Len(HandlerSteps) /\ steps = SubSeq(HandlerSteps, 1, Len(steps))
    /\ Len(emitted) <= 1
    /\ emitted # <<>> => /\ "save" \in Range(steps)
                         /\ emitted[1].DetailType = "OCR Completed"
    /\ handler_pc # "raised"
    /\ (Raised /\ handler_pc = "returned") =>
            /\ handler_result.status = "failed"
            /\ handler_result.error_message # None

\* C29: in every execution of the Lambda handler the steps run in the order download,
\* OCR, quality-gate decision, save, emit; the 'OCR Completed' event is emitted at
\* most once and only after save_ocr_result has completed; once a step has raised no
\* event is emitted, the exception does not leave the handler, and the handler
\* returns a result with status 'failed' and an error_message.
C29_HandlerStepsInOrder ==
    [][/\ HandlerOrder'
       /\ Raised => (Raised' /\ emitted' = emitted)]_vars

\* put_events failed after the result was saved, and the handler returned
C29_Witness ==
    /\ handler_pc = "returned"
    /\ Raised /\ exc.error = "ClientError"
    /\ steps = <<"download", "ocr", "gate", "save">>
    /\ emitted = <<>>
    /\ handler_result.status = "failed"
    /\ handler_result.error_message = <<"S3 error: ", "Rate exceeded">>

\* C30: in every result the Lambda handler returns, status and route agree: route
\* 'validation' comes only with status 'completed', 'llm' only with 'needs_llm',
\* 'hitl' only with 'needs_hitl', and a result with status 'failed' does not have
\* route 'validation'.
C30_StatusAndRouteAgree ==
    handler_pc = "returned" =>
        /\ handler_result.route = "validation" => handler_result.status = "completed"
        /\ handler_result.route = "llm" => handler_result.status = "needs_llm"
        /\ handler_result.route = "hitl" => handler_result.status = "needs_hitl"
        /\ handler_result.status = "failed" => handler_result.route # "validation"

(***************************************************************************)
(* Specifications                                                          *)
(***************************************************************************)
Init ==
    /\ GateInit /\ TimeInit /\ ExtractInit /\ ConfInit
    /\ CallInit /\ VisionInit /\ HandlerInit

GateNext == CalculateQualityGateDecision \/ CalculateQualityGate
SpecGate == Init /\ [][GateNext]_vars

TimeNext == NormalizeTime
SpecTime == Init /\ [][TimeNext]_vars

ExtractNext ==
    ExtractTimeblocks \/ BlankLine \/ DayLine \/ EventLine \/ OtherLine \/ ExtractReturn
SpecExtract == Init /\ [][ExtractNext]_vars

ConfNext == CalculateConfidence \/ ServiceCalculateConfidence
SpecConf == Init /\ [][ConfNext]_vars

SessionNext ==
    \/ SessionExtractTimeblocks \/ BlankLine \/ DayLine \/ EventLine \/ OtherLine
    \/ SessionExtractReturn
    \/ SessionQualityGateDecision \/ SessionQualityGate
    \/ SessionCalculateConfidence \/ SessionServiceCalculateConfidence
SpecSession == Init /\ [][SessionNext]_vars

PipelineNext ==
    \/ PipelineProcessImage \/ PipelineServiceProcessImage
    \/ HandlerQualityGate \/ ApiQualityGate
    \/ ExtractFromResult \/ BlankLine \/ DayLine \/ EventLine \/ OtherLine \/ ExtractReturn
SpecPipeline == Init /\ [][PipelineNext]_vars

VisionNext == ConstructWithCloudVision \/ ProcessWithCloudVision
SpecVision == Init /\ [][VisionNext]_vars

HandlerNext ==
    \/ HandlerInvoke \/ HandlerParameters \/ HandlerDownload \/ HandlerConstruct
    \/ HandlerProcessImage \/ HandlerDecide \/ HandlerSave \/ HandlerEmit
    \/ HandlerReturn \/ HandlerExcept
SpecHandler == Init /\ [][HandlerNext]_vars

ProcessNext == ProcessImage \/ ServiceProcessImage \/ HandlerQualityGate \/ ApiQualityGate
SpecProcess == Init /\ [][ProcessNext]_vars

====
